---------------------------- MODULE Spec2Model ----------------------------
(***************************************************************************)
(* A model of visage.  The TTS lip-sync path:                              *)
(*   - tts/src/markers.js   (parseMarkers, stripMarkers, getMarkerEffect)  *)
(*   - tts/src/phonemes.js  (textToPhonemes, phonemesToFrames)             *)
(*   - tts/src/lipsync.js   (generateLipSync, streamLipSync)               *)
(* and the face path:                                                      *)
(*   - web/public/emotion.js  (blend, lerp, EmotionDriver)                 *)
(*   - the AgentChat bridge   (enqueue, drainQueue, speak)                 *)
(*   - the relay server       (producer -> viewer frame relay)             *)
(*   - web/public/receiver.js (Receiver)                                   *)
(*                                                                         *)
(* Text is a sequence of one-character strings.  Real numbers (seconds,    *)
(* amplitudes) are exact rationals [n |-> numerator, d |-> denominator].   *)
(***************************************************************************)
EXTENDS Integers, Sequences, FiniteSets, TLC

VARIABLES
    \* ---- markers.js under test (parseMarkers / stripMarkers) ----
    mText,          \* the input text
    mSegments,      \* result of parseMarkers(mText)
    mParsed,        \* TRUE once parseMarkers has run
    mOut,           \* result of the latest stripMarkers call
    mPrev,          \* result of the stripMarkers call before the latest
    mCalls,         \* number of stripMarkers calls chained so far
    \* ---- generateLipSync ----
    gText,          \* argument text
    gFps,           \* options.fps   (integer frames per second)
    gSpeed,         \* options.speed (rational)
    gPc,            \* "call" | "scan" | "done"
    segments,       \* parseMarkers(text)
    segIdx,         \* position of the for-of loop in segments (1-based)
    allFrames,      \* frames pushed so far
    timeOffset,     \* rational seconds
    activeEffects,  \* stack of active marker effects
    segEffects,     \* history: the effects applied to each text segment
    gResult,        \* the returned {frames, duration, phonemeCount}
    \* ---- streamLipSync ----
    sFrames,        \* argument frames: their t, in units of 1/Sub ms
    sPc,            \* "new" | "running" | "returned"
    now,            \* Date.now(), ms
    startTime,      \* ms
    index,          \* next frame to deliver (0-based, as in the code)
    stopped,        \* the closure's stopped flag
    timer,          \* due time (ms) of the pending setTimeout(tick), or -1
    delivered,      \* history: frame positions handed to onFrame, in order
    deliveredAt,    \* history: elapsed (1/Sub ms) at each onFrame call
    lateFrames,     \* history: onFrame calls made while stopped was TRUE
    doneCalls,      \* history: number of onDone calls
    doneAfterStop,  \* history: onDone calls made while stopped was TRUE
    \* ---- emotion.js: blend under test ----
    bVector,        \* stateVector: the entries [emotion, weight], in order
    bPresets,       \* the presets argument
    bOut,           \* the returned frame
    bDone,          \* TRUE once blend has run
    \* ---- emotion.js: EmotionDriver ----
    ePresets,       \* this.presets
    decayRate,      \* this.decayRate
    transitionMs,   \* this.transitionMs
    eNow,           \* performance.now(), ms
    eCurrent,       \* this._current
    eTarget,        \* this._target
    transitionStart,\* this._transitionStart
    transitioning,  \* this._transitioning
    lastUpdateTime, \* this._lastUpdateTime
    eReturned,      \* history: the vectors frame() has returned, latest last
    eVectors,       \* history: the number of update() calls and their latest state vector
    eAllFinite,     \* history: every weight passed to update() was a finite number
    ePartial,       \* history: frame() calls that met an unfinished transition
    \* ---- the AgentChat bridge: the TTS queue ----
    queue,          \* the queued messages, oldest first (each its arrival number)
    speaking,       \* the speaking flag
    speakPc,        \* speak(): "none" | "fetch" (awaiting the TTS service)
                    \*          | "timer" (waiting for the utterance to end)
    retryTimers,    \* pending setTimeout(drainQueue, 2000) timers
    arrived,        \* history: number of enqueue calls
    spoken,         \* history: the messages handed to speak, in order
    evicted,        \* history: the messages dropped by the overflow rule
    \* ---- the relay server ----
    connState,      \* per connection: "none" | "OPEN" | "CLOSING" | "CLOSED"
    connRole,       \* per connection: the handler's role variable
    producers,      \* the producers set
    viewers,        \* the viewers set
    latestFrame,    \* the cached frame (a parsed value), or NoFrame
    demoInterval,   \* TRUE while the demo interval is set
    crashed,        \* TRUE once a handler has thrown
    sent,           \* history: per connection, the texts sent to it, in order
    relayIn,        \* history: the latest message handled and their count
    accepted,       \* history: the latest frame accepted, if any
    \* ---- receiver.js: Receiver ----
    rWs,            \* the socket: "none" | "CONNECTING" | "OPEN" | "CLOSED"
    rStatus,        \* this._status
    rFrame,         \* this._frame
    rReconnectDelay,\* this._reconnectDelay, ms
    rTimer,         \* delay (ms) of the pending reconnect timer, or -1
    rCalls,         \* history: the messages passed to the frame callbacks
    rFails,         \* history: reconnect waits scheduled since the last open
    rLastValid,     \* history: the last message that had both t and pts
    rDropped,       \* history: number of messages that were not frames
    rStopped,       \* history: disconnect() was called since connect(url)
    \* ---- animation system: the layer blender ----
    layers,         \* the active layers, in insertion order
    aLast,          \* history: the latest call, its arguments, and whether a
                    \* layer of that name was active
    \* ---- tts/src/server.js: the HTTP API of the TTS service ----
    srvLog,         \* history: the requests handled, with their responses
    srvLeft,        \* per request, the frames its stream has still to send
    srvSent,        \* history: per request, the frames broadcast so far
    \* ---- generateLipSync with the speed and fps of a request ----
    pText,          \* the text, without markers
    pFps,           \* options.fps
    pSpeed,         \* options.speed
    pPc,            \* "call" | "loop" | "done"
    pTotal,         \* totalDuration, ms
    pTime,          \* currentTime, ms
    pFrames,        \* frames.length
    \* ---- bridge, eyes, ears: the connection to AgentChat ----
    svcWs,          \* per service, "idle" before startup, "null", or the
                    \* readyState of its socket
    svcDelay,       \* per service, reconnectDelay
    svcTimers,      \* per service, the waits of the pending reconnect timers
    \* ---- eyes/index.js: handleLook and the periodic capture ----
    analyzing,      \* the flag
    captureCount,   \* screenshots taken
    lookPc,         \* per handleLook call, "idle" | "await" | "done"
    lookStatus,     \* per handleLook call, the status it returned, or ""
    lookTicks,      \* history: periodic ticks so far
    \* ---- Registry: the handles and transactions tables ----
    handles,        \* table handles: the row of each handle that has one
    transactions,   \* table transactions, in the order of id
    regLast         \* history: the latest call, its arguments and result

markerVars == <<mText, mSegments, mParsed, mOut, mPrev, mCalls>>
genVars    == <<gText, gFps, gSpeed, gPc, segments, segIdx, allFrames,
                timeOffset, activeEffects, segEffects, gResult>>
streamVars == <<sFrames, sPc, now, startTime, index, stopped, timer,
                delivered, deliveredAt, lateFrames, doneCalls, doneAfterStop>>
blendVars  == <<bVector, bPresets, bOut, bDone>>
animVars   == <<layers, aLast>>
srvVars    == <<srvLog, srvLeft, srvSent>>
loopVars   == <<pText, pFps, pSpeed, pPc, pTotal, pTime, pFrames>>
\* the components added last, and for each of them the others
svcVars    == <<svcWs, svcDelay, svcTimers>>
lookVars   == <<analyzing, captureCount, lookPc, lookStatus, lookTicks>>
regVars    == <<handles, transactions, regLast>>
moreVars   == <<loopVars, svcVars, lookVars, regVars>>
loopRest   == <<svcVars, lookVars, regVars>>
svcRest    == <<loopVars, lookVars, regVars>>
lookRest   == <<loopVars, svcVars, regVars>>
regRest    == <<loopVars, svcVars, lookVars>>
emoVars    == <<ePresets, decayRate, transitionMs, eNow, eCurrent, eTarget,
                transitionStart, transitioning, lastUpdateTime, eReturned,
                eVectors, eAllFinite, ePartial>>
bridgeVars == <<queue, speaking, speakPc, retryTimers, arrived, spoken,
                evicted>>
relayVars  == <<connState, connRole, producers, viewers, latestFrame,
                demoInterval, crashed, sent, relayIn, accepted>>
recvVars   == <<rWs, rStatus, rFrame, rReconnectDelay, rTimer, rCalls, rFails,
                rLastValid, rDropped, rStopped>>
\* the lip-sync path, the face path and the network path
lipVars  == <<markerVars, genVars, streamVars>>
netVars  == <<bridgeVars, relayVars, recvVars>>
restVars == <<blendVars, animVars, srvVars, moreVars>>
faceVars == <<restVars, emoVars, netVars>>
vars == <<lipVars, faceVars>>

----------------------------------------------------------------------------
(* Bounds of the model.                                                    *)

\* texts are concatenations of at most MaxPieces pieces
MaxPieces == 4
\* streamLipSync: frames per sequence, and the last clock value (ms)
MaxFrames == 3
MaxNow == 3
\* frame times have a resolution of 1/Sub ms (Date.now() has 1 ms)
Sub == 2
\* blend: entries per state vector
MaxEntries == 2
\* EmotionDriver: update() calls, frame() calls that meet an unfinished
\* transition, the last clock value (ms), and the epsilon 1/EpsInv
MaxUpdates == 2
MaxPartial == 2
MaxEmoNow == 2400
EpsInv == 50
\* the bridge: messages that arrive, and retry timers pending at once
MaxArrivals == 23
MaxRetryTimers == 1
\* the relay server: connections, and messages and demo ticks handled
MaxConns == 3
MaxRelayIn == 4
\* the Receiver: messages received, and consecutive failed attempts
MaxRecvMsgs == 3
MaxFails == 6

----------------------------------------------------------------------------
(* Characters and character classes of the regular expressions.            *)

LowerLetters == {"a","b","c","d","e","f","g","h","i","j","k","l","m",
                 "n","o","p","q","r","s","t","u","v","w","x","y","z"}
UpperLetters == {"A","B","C","D","E","F","G","H","I","J","K","L","M",
                 "N","O","P","Q","R","S","T","U","V","W","X","Y","Z"}
Digits == {"0","1","2","3","4","5","6","7","8","9"}

\* \w
IsWordChar(c) == c \in LowerLetters \cup UpperLetters \cup Digits \cup {"_"}
\* [\w-]
IsNameChar(c) == IsWordChar(c) \/ c = "-"
\* \s
IsSpace(c) == c \in {" ", "\t", "\n", "\r"}

\* String.prototype.toLowerCase, per character
toLowerCase(c) ==
    CASE c = "A" -> "a" [] c = "B" -> "b" [] c = "C" -> "c" [] c = "D" -> "d"
      [] c = "E" -> "e" [] c = "F" -> "f" [] c = "G" -> "g" [] c = "H" -> "h"
      [] c = "I" -> "i" [] c = "J" -> "j" [] c = "K" -> "k" [] c = "L" -> "l"
      [] c = "M" -> "m" [] c = "N" -> "n" [] c = "O" -> "o" [] c = "P" -> "p"
      [] c = "Q" -> "q" [] c = "R" -> "r" [] c = "S" -> "s" [] c = "T" -> "t"
      [] c = "U" -> "u" [] c = "V" -> "v" [] c = "W" -> "w" [] c = "X" -> "x"
      [] c = "Y" -> "y" [] c = "Z" -> "z" [] OTHER -> c

\* marker names, as character sequences
EMPHASIS   == <<"e","m","p","h","a","s","i","s">>
PAUSE      == <<"p","a","u","s","e">>
LONG_PAUSE == <<"l","o","n","g","-","p","a","u","s","e">>
WHISPER    == <<"w","h","i","s","p","e","r">>
EXCITED    == <<"e","x","c","i","t","e","d">>
QUESTION   == <<"q","u","e","s","t","i","o","n">>
UNKNOWN_X  == <<"x">>

AT2 == <<"@","@">>
StartToken(name) == AT2 \o name \o AT2
EndToken(name)   == AT2 \o <<"/">> \o name \o AT2

----------------------------------------------------------------------------
(* markers.js                                                              *)

\* The first position >= k of text that does not hold a [\w-] character
\* (Len(text)+1 when the run reaches the end): the greedy [\w-]*.
RECURSIVE NameEnd(_, _)
NameEnd(text, k) ==
    IF k <= Len(text) /\ IsNameChar(text[k]) THEN NameEnd(text, k + 1) ELSE k

\* The match of /@@(\/?)(\w[\w-]*)@@/ anchored at position i (1-based):
\* [len, closing, name], len = 0 when there is none.  Neither the optional
\* slash nor the greedy name run can match in a second way: the character
\* after either must be one the skipped alternative cannot consume.
NoMatch == [len |-> 0, closing |-> FALSE, name |-> <<>>]
MatchAt(text, i) ==
    LET n == Len(text)
        hasSlash == i + 2 <= n /\ text[i + 2] = "/"
        k == IF hasSlash THEN i + 3 ELSE i + 2
        e == NameEnd(text, k + 1)
    IN  IF /\ i + 1 <= n
           /\ text[i] = "@" /\ text[i + 1] = "@"
           /\ k <= n /\ IsWordChar(text[k])
           /\ e + 1 <= n
           /\ text[e] = "@" /\ text[e + 1] = "@"
        THEN [len |-> e + 2 - i, closing |-> hasSlash,
              name |-> SubSeq(text, k, e - 1)]
        ELSE NoMatch

\* regex.exec with the g flag: the leftmost match at or after position from,
\* 0 when there is none.
RECURSIVE FindMatch(_, _)
FindMatch(text, from) ==
    IF from > Len(text) THEN 0
    ELSE IF MatchAt(text, from).len > 0 THEN from
    ELSE FindMatch(text, from + 1)

TextSegment(content)  == [type |-> "text", name |-> <<>>, content |-> content]
MarkerSegment(ty, nm) == [type |-> ty, name |-> nm, content |-> <<>>]

\* The segment pushed for one match (lines 62-72).
MarkerOf(m) ==
    IF m.closing THEN MarkerSegment("marker_end", m.name)
    ELSE IF m.name = PAUSE \/ m.name = LONG_PAUSE
         THEN MarkerSegment("marker", m.name)
    ELSE MarkerSegment("marker_start", m.name)

\* (an off-by-one in the test for text before a match)
TextBeforeOrEmpty(text, lastIndex, at) ==
    IF at >= lastIndex
    THEN <<TextSegment(SubSeq(text, lastIndex, at - 1))>>
    ELSE <<>>

\* The text pushed before a match at position at, scanning from lastIndex.
TextBefore(text, lastIndex, at) ==
    IF at > lastIndex
    THEN <<TextSegment(SubSeq(text, lastIndex, at - 1))>>
    ELSE <<>>

\* The while loop of parseMarkers from lastIndex (1-based) on, and the
\* remaining text after it.
RECURSIVE ParseFrom(_, _)
ParseFrom(text, lastIndex) ==
    LET at == FindMatch(text, lastIndex) IN
    IF at = 0
    THEN IF lastIndex <= Len(text)
         THEN <<TextSegment(SubSeq(text, lastIndex, Len(text)))>>
         ELSE <<>>
    ELSE LET m == MatchAt(text, at) IN
         TextBefore(text, lastIndex, at) \o <<MarkerOf(m)>>
             \o ParseFrom(text, at + m.len)

parseMarkers(text) == ParseFrom(text, 1)

\* text.replace(/@@\/?\w[\w-]*@@/g, ''): every match, left to right, removed.
RECURSIVE RemoveMarkers(_, _)
RemoveMarkers(text, from) ==
    LET at == FindMatch(text, from) IN
    IF at = 0 THEN SubSeq(text, from, Len(text))
    ELSE SubSeq(text, from, at - 1)
             \o RemoveMarkers(text, at + MatchAt(text, at).len)

\* .replace(/\s+/g, ' '): every maximal whitespace run becomes one space.
RECURSIVE CollapseSpaces(_, _)
CollapseSpaces(text, i) ==
    IF i > Len(text) THEN <<>>
    ELSE IF IsSpace(text[i])
         THEN IF i > 1 /\ IsSpace(text[i - 1])
              THEN CollapseSpaces(text, i + 1)
              ELSE <<" ">> \o CollapseSpaces(text, i + 1)
    ELSE <<text[i]>> \o CollapseSpaces(text, i + 1)

\* .trim()
RECURSIVE TrimStart(_)
TrimStart(text) ==
    IF text # <<>> /\ IsSpace(Head(text)) THEN TrimStart(Tail(text)) ELSE text
RECURSIVE TrimEnd(_)
TrimEnd(text) ==
    IF text # <<>> /\ IsSpace(text[Len(text)])
    THEN TrimEnd(SubSeq(text, 1, Len(text) - 1)) ELSE text
Trim(text) == TrimEnd(TrimStart(text))

stripMarkers(text) == Trim(CollapseSpaces(RemoveMarkers(text, 1), 1))


----------------------------------------------------------------------------
(* Exact rational arithmetic for the seconds and amplitudes of the code.   *)

Abs(x) == IF x < 0 THEN -x ELSE x

\* Euclid's algorithm, as a function so that each step works on values
Gcd(a, b) ==
    LET gcd[x \in Nat, y \in Nat] == IF y = 0 THEN x ELSE gcd[y, x % y]
    IN  gcd[a, b]

\* n/d in lowest terms, for d > 0; a function so that n and d are values
Rat(n, d) ==
    LET rat[x \in Int, y \in Nat] ==
            LET g == Gcd(Abs(x), y) IN [n |-> x \div g, d |-> y \div g]
    IN  rat[n, d]

Zero == Rat(0, 1)
One  == Rat(1, 1)
\* a property an object does not have (undefined)
Undefined == [n |-> 0, d |-> 0]
\* JavaScript truthiness of a numeric property: defined and not 0
Truthy(r) == r.d # 0 /\ r.n # 0

RAdd(a, b) == Rat(a.n * b.d + b.n * a.d, a.d * b.d)
RSub(a, b) == Rat(a.n * b.d - b.n * a.d, a.d * b.d)
RMul(a, b) == Rat(a.n * b.n, a.d * b.d)
\* a / b for b > 0
RDiv(a, b) == Rat(a.n * b.d, a.d * b.n)
RLt(a, b)  == a.n * b.d < b.n * a.d
RLe(a, b)  == a.n * b.d <= b.n * a.d
RMin(a, b) == IF RLt(b, a) THEN b ELSE a
RMax(a, b) == IF RLt(a, b) THEN b ELSE a
Abs0(a) == [n |-> Abs(a.n), d |-> a.d]
\* Math.round of a rational >= 0
Round(a) == (2 * a.n + a.d) \div (2 * a.d)

----------------------------------------------------------------------------
(* markers.js: the effect table                                            *)

\* An effect object; isObject is FALSE for null alone.
Effect(speedMultiplier, mouthScale, browRaise, pauseDuration) ==
    [isObject |-> TRUE,
     speedMultiplier |-> speedMultiplier, mouthScale |-> mouthScale,
     browRaise |-> browRaise, pauseDuration |-> pauseDuration]

MARKER_EFFECTS ==
    (EMPHASIS   :> Effect(Rat(7, 10), Rat(13, 10), Undefined, Undefined)) @@
    (PAUSE      :> Effect(Undefined, Undefined, Undefined, Rat(4, 10))) @@
    (LONG_PAUSE :> Effect(Undefined, Undefined, Undefined, Rat(8, 10))) @@
    (WHISPER    :> Effect(Rat(8, 10), Rat(4, 10), Undefined, Undefined)) @@
    (EXCITED    :> Effect(Rat(13, 10), Rat(12, 10), Rat(6, 100), Undefined)) @@
    (QUESTION   :> Effect(Undefined, Undefined, Rat(5, 100), Undefined))

Null == [isObject |-> FALSE,
         speedMultiplier |-> Undefined, mouthScale |-> Undefined,
         browRaise |-> Undefined, pauseDuration |-> Undefined]

\* MARKER_EFFECTS is an object literal: a lookup by a name it does not own
\* finds what it inherits from Object.prototype, an object (or function)
\* with none of the effect properties.  The inherited names \w[\w-]* can spell:
InheritedNames ==
    { <<"c","o","n","s","t","r","u","c","t","o","r">>,
      <<"t","o","S","t","r","i","n","g">>,
      <<"v","a","l","u","e","O","f">>,
      <<"t","o","L","o","c","a","l","e","S","t","r","i","n","g">>,
      <<"h","a","s","O","w","n","P","r","o","p","e","r","t","y">>,
      <<"i","s","P","r","o","t","o","t","y","p","e","O","f">>,
      <<"p","r","o","p","e","r","t","y","I","s","E","n","u","m","e","r","a","b","l","e">>,
      <<"_","_","p","r","o","t","o","_","_">>,
      <<"_","_","d","e","f","i","n","e","G","e","t","t","e","r","_","_">>,
      <<"_","_","d","e","f","i","n","e","S","e","t","t","e","r","_","_">>,
      <<"_","_","l","o","o","k","u","p","G","e","t","t","e","r","_","_">>,
      <<"_","_","l","o","o","k","u","p","S","e","t","t","e","r","_","_">> }

\* MARKER_EFFECTS[name] || null
getMarkerEffect(name) ==
    IF name \in DOMAIN MARKER_EFFECTS THEN MARKER_EFFECTS[name]
    ELSE IF name \in InheritedNames
         THEN Effect(Undefined, Undefined, Undefined, Undefined)
    ELSE Null

----------------------------------------------------------------------------
(* phonemes.js                                                             *)

Viseme(mouth_open, mouth_wide, jaw_open) ==
    [mouth_open |-> Rat(mouth_open, 100), mouth_wide |-> Rat(mouth_wide, 100),
     jaw_open |-> Rat(jaw_open, 100)]

\* VISEME_MAP, in hundredths
VISEME_MAP ==
    ("_"  :> Viseme(0, 0, 0)) @@
    ("AA" :> Viseme(85, 30, 80)) @@ ("AE" :> Viseme(70, 50, 60)) @@
    ("AH" :> Viseme(60, 30, 50)) @@ ("AO" :> Viseme(70, 20, 70)) @@
    ("AW" :> Viseme(70, 20, 70)) @@ ("AY" :> Viseme(70, 40, 60)) @@
    ("EH" :> Viseme(50, 50, 40)) @@ ("ER" :> Viseme(40, 20, 30)) @@
    ("EY" :> Viseme(40, 60, 30)) @@ ("IH" :> Viseme(30, 50, 20)) @@
    ("IY" :> Viseme(20, 70, 15)) @@ ("OW" :> Viseme(60, 10, 50)) @@
    ("OY" :> Viseme(60, 20, 50)) @@ ("UH" :> Viseme(40, 15, 35)) @@
    ("UW" :> Viseme(30, 10, 30)) @@
    ("B"  :> Viseme(0, 0, 5))    @@ ("CH" :> Viseme(15, 30, 10)) @@
    ("D"  :> Viseme(10, 30, 10)) @@ ("DH" :> Viseme(10, 30, 10)) @@
    ("F"  :> Viseme(5, 30, 5))   @@ ("G"  :> Viseme(15, 20, 15)) @@
    ("HH" :> Viseme(30, 30, 20)) @@ ("JH" :> Viseme(15, 30, 10)) @@
    ("K"  :> Viseme(15, 20, 15)) @@ ("L"  :> Viseme(20, 30, 15)) @@
    ("M"  :> Viseme(0, 0, 5))    @@ ("N"  :> Viseme(10, 30, 10)) @@
    ("NG" :> Viseme(15, 20, 15)) @@ ("P"  :> Viseme(0, 0, 5))    @@
    ("R"  :> Viseme(20, 15, 15)) @@ ("S"  :> Viseme(5, 40, 5))   @@
    ("SH" :> Viseme(10, 20, 8))  @@ ("T"  :> Viseme(10, 30, 10)) @@
    ("TH" :> Viseme(10, 30, 8))  @@ ("V"  :> Viseme(5, 30, 5))   @@
    ("W"  :> Viseme(20, 5, 15))  @@ ("Y"  :> Viseme(15, 50, 10)) @@
    ("Z"  :> Viseme(5, 40, 5))   @@ ("ZH" :> Viseme(10, 20, 8))

LETTER_TO_PHONEME ==
    ("a" :> "AH") @@ ("b" :> "B") @@ ("c" :> "K") @@ ("d" :> "D") @@
    ("e" :> "EH") @@ ("f" :> "F") @@ ("g" :> "G") @@ ("h" :> "HH") @@
    ("i" :> "IH") @@ ("j" :> "JH") @@ ("k" :> "K") @@ ("l" :> "L") @@
    ("m" :> "M") @@ ("n" :> "N") @@ ("o" :> "OW") @@ ("p" :> "P") @@
    ("q" :> "K") @@ ("r" :> "R") @@ ("s" :> "S") @@ ("t" :> "T") @@
    ("u" :> "AH") @@ ("v" :> "V") @@ ("w" :> "W") @@ ("x" :> "K") @@
    ("y" :> "IY") @@ ("z" :> "Z")

DIGRAPHS ==
    (<<"t","h">> :> "TH") @@ (<<"s","h">> :> "SH") @@ (<<"c","h">> :> "CH") @@
    (<<"w","h">> :> "W")  @@ (<<"p","h">> :> "F")  @@ (<<"n","g">> :> "NG") @@
    (<<"o","o">> :> "UW") @@ (<<"e","e">> :> "IY") @@ (<<"e","a">> :> "IY") @@
    (<<"o","u">> :> "AW") @@ (<<"o","w">> :> "AW") @@ (<<"a","i">> :> "EY") @@
    (<<"a","y">> :> "EY") @@ (<<"o","i">> :> "OY") @@ (<<"o","y">> :> "OY") @@
    (<<"a","r">> :> "AA") @@ (<<"e","r">> :> "ER") @@ (<<"i","r">> :> "ER") @@
    (<<"o","r">> :> "AO") @@ (<<"u","r">> :> "ER")

\* 'AEIOU'.includes(ph[0]): the phoneme names that begin with A, E, I, O or U
isVowel(ph) ==
    ph \in {"AA","AE","AH","AO","AW","AY","EH","ER","EY","IH","IY",
            "OW","OY","UH","UW"}

Phoneme(ph, hundredths) == [phoneme |-> ph, duration |-> Rat(hundredths, 100)]

\* text.toLowerCase().replace(/[^a-z\s]/g, '')
RECURSIVE LowerLettersOnly(_)
LowerLettersOnly(text) ==
    IF text = <<>> THEN <<>>
    ELSE LET c == toLowerCase(Head(text)) IN
         IF c \in LowerLetters \/ IsSpace(c)
         THEN <<c>> \o LowerLettersOnly(Tail(text))
         ELSE LowerLettersOnly(Tail(text))

\* lower.split(/\s+/).filter(w => w.length > 0), cur the word being read
RECURSIVE Words(_, _)
Words(lower, cur) ==
    IF lower = <<>> THEN (IF cur = <<>> THEN <<>> ELSE <<cur>>)
    ELSE IF IsSpace(Head(lower))
         THEN (IF cur = <<>> THEN <<>> ELSE <<cur>>) \o Words(Tail(lower), <<>>)
    ELSE Words(Tail(lower), Append(cur, Head(lower)))

\* the while loop over one word, from position i (1-based)
RECURSIVE WordPhonemes(_, _)
WordPhonemes(word, i) ==
    IF i > Len(word) THEN <<>>
    ELSE IF i + 1 <= Len(word) /\ SubSeq(word, i, i + 1) \in DOMAIN DIGRAPHS
         THEN LET ph == DIGRAPHS[SubSeq(word, i, i + 1)] IN
              <<Phoneme(ph, IF isVowel(ph) THEN 10 ELSE 7)>>
                  \o WordPhonemes(word, i + 2)
    ELSE LET ph == IF word[i] \in DOMAIN LETTER_TO_PHONEME
                   THEN LETTER_TO_PHONEME[word[i]] ELSE "_" IN
         <<Phoneme(ph, IF isVowel(ph) THEN 9 ELSE 6)>>
             \o WordPhonemes(word, i + 1)

\* the for loop over the words, from word wi (1-based)
RECURSIVE WordsPhonemes(_, _)
WordsPhonemes(words, wi) ==
    IF wi > Len(words) THEN <<>>
    ELSE WordPhonemes(words[wi], 1)
             \o (IF wi < Len(words) THEN <<Phoneme("_", 8)>> ELSE <<>>)
             \o WordsPhonemes(words, wi + 1)

textToPhonemes(text) == WordsPhonemes(Words(LowerLettersOnly(text), <<>>), 1)

phonemeToViseme(ph) ==
    IF ph \in DOMAIN VISEME_MAP THEN VISEME_MAP[ph] ELSE VISEME_MAP["_"]

\* phonemes.reduce((sum, p) => sum + p.duration, 0)
RECURSIVE TotalDuration(_)
TotalDuration(phonemes) ==
    IF phonemes = <<>> THEN Zero
    ELSE RAdd(TotalDuration(SubSeq(phonemes, 1, Len(phonemes) - 1)),
              phonemes[Len(phonemes)].duration)

\* the timeline of viseme targets (lines 144-153)
Timeline(phonemes) ==
    [i \in 1..Len(phonemes) |->
        [start  |-> TotalDuration(SubSeq(phonemes, 1, i - 1)),
         end    |-> TotalDuration(SubSeq(phonemes, 1, i)),
         viseme |-> phonemeToViseme(phonemes[i].phoneme)]]

\* timeline.find(e => currentTime >= e.start && currentTime < e.end), as an
\* index; the last entry when none is found
RECURSIVE FindCurrent(_, _, _)
FindCurrent(timeline, currentTime, i) ==
    IF i > Len(timeline) THEN Len(timeline)
    ELSE IF RLe(timeline[i].start, currentTime) /\ RLt(currentTime, timeline[i].end)
         THEN i
    ELSE FindCurrent(timeline, currentTime, i + 1)

lerp(a, b, t) == RAdd(a, RMul(RSub(b, a), t))

Pts(mouth_open, mouth_wide, jaw_open, mouth_smile) ==
    [mouth_open |-> mouth_open, mouth_wide |-> mouth_wide, jaw_open |-> jaw_open,
     mouth_smile |-> mouth_smile,
     left_brow_height |-> Undefined, right_brow_height |-> Undefined]

Frame(t, pts) == [t |-> t, pts |-> pts]

\* the frame pushed for one sample (lines 158-181)
SampleFrame(timeline, currentTime) ==
    LET cur == FindCurrent(timeline, currentTime, 1)
        current == timeline[cur]
        progress == RDiv(RSub(currentTime, current.start),
                         RSub(current.end, current.start))
        v == current.viseme
        next == IF cur + 1 <= Len(timeline) THEN timeline[cur + 1].viseme
                ELSE VISEME_MAP["_"]
        blend == IF RLt(Rat(7, 10), progress)
                 THEN RDiv(RSub(progress, Rat(7, 10)), Rat(3, 10)) ELSE Zero
    IN  Frame(currentTime,
              Pts(lerp(v.mouth_open, next.mouth_open, blend),
                  lerp(v.mouth_wide, next.mouth_wide, blend),
                  lerp(v.jaw_open, next.jaw_open, blend),
                  Rat(5, 100)))

\* the closing frame of phonemesToFrames (lines 187-190)
ClosedFrame(t) == Frame(t, Pts(Zero, Zero, Zero, Rat(10, 100)))

\* the sampling loop from currentTime on, then the closing frame
RECURSIVE SampleFrom(_, _, _, _)
SampleFrom(timeline, totalDuration, currentTime, frameDuration) ==
    IF RLt(currentTime, totalDuration)
    THEN <<SampleFrame(timeline, currentTime)>>
             \o SampleFrom(timeline, totalDuration,
                           RAdd(currentTime, frameDuration), frameDuration)
    ELSE <<ClosedFrame(currentTime)>>

\* (sample is applied to the timeline so that it is built once)
phonemesToFrames(phonemes, fps) ==
    LET sample[timeline \in {Timeline(phonemes)}] ==
            SampleFrom(timeline, TotalDuration(phonemes), Zero, Rat(1, fps))
    IN  sample[Timeline(phonemes)]

----------------------------------------------------------------------------
(* lipsync.js: generateLipSync                                             *)

\* One pass of the loop over activeEffects (lines 63-67).
ApplyEffect(acc, eff) ==
    [segSpeed   |-> IF Truthy(eff.speedMultiplier)
                    THEN RMul(acc.segSpeed, eff.speedMultiplier) ELSE acc.segSpeed,
     mouthScale |-> IF Truthy(eff.mouthScale)
                    THEN RMul(acc.mouthScale, eff.mouthScale) ELSE acc.mouthScale,
     browRaise  |-> IF Truthy(eff.browRaise)
                    THEN RMax(acc.browRaise, eff.browRaise) ELSE acc.browRaise]

\* segSpeed, mouthScale and browRaise of a text segment (lines 60-67)
RECURSIVE ApplyEffects(_, _)
ApplyEffects(effects, speed) ==
    IF effects = <<>>
    THEN [segSpeed |-> speed, mouthScale |-> One, browRaise |-> Zero]
    ELSE ApplyEffect(ApplyEffects(SubSeq(effects, 1, Len(effects) - 1), speed),
                     effects[Len(effects)])

\* p.duration /= segSpeed, when segSpeed !== 1.0 (lines 70-74)
AdjustDurations(phonemes, segSpeed) ==
    IF segSpeed # One
    THEN [i \in 1..Len(phonemes) |->
            [phonemes[i] EXCEPT !.duration = RDiv(@, segSpeed)]]
    ELSE phonemes

\* (the clamp after scaling left out)
ScaleMouthUnclamped(x, mouthScale) == RMul(x, mouthScale)

\* Math.min(1.0, x * mouthScale)
ScaleMouth(x, mouthScale) == RMin(One, RMul(x, mouthScale))

\* the body of the loop over a text segment's frames (lines 80-87)
PlaceFrame(f, offset, mouthScale, browRaise) ==
    [t   |-> RAdd(f.t, offset),
     pts |-> [mouth_open  |-> ScaleMouth(f.pts.mouth_open, mouthScale),
              mouth_wide  |-> ScaleMouth(f.pts.mouth_wide, mouthScale),
              jaw_open    |-> ScaleMouth(f.pts.jaw_open, mouthScale),
              mouth_smile |-> f.pts.mouth_smile,
              left_brow_height  |-> IF RLt(Zero, browRaise) THEN browRaise
                                    ELSE f.pts.left_brow_height,
              right_brow_height |-> IF RLt(Zero, browRaise) THEN browRaise
                                    ELSE f.pts.right_brow_height]]

\* the frames a text segment pushes (lines 57-89)
TextFrames(content, effects, speed, fps, offset) ==
    LET e == ApplyEffects(effects, speed)
        frames == phonemesToFrames(
                      AdjustDurations(textToPhonemes(content), e.segSpeed), fps)
    IN  [i \in 1..Len(frames) |->
            PlaceFrame(frames[i], offset, e.mouthScale, e.browRaise)]

\* (the update of timeOffset after a text segment left out)
OffsetNotAdvanced(frames, offset, fps) == offset

\* timeOffset after a text segment (lines 92-94)
OffsetAfterText(frames, offset, fps) ==
    IF Len(frames) > 0 THEN RAdd(frames[Len(frames)].t, Rat(1, fps)) ELSE offset

\* (silence frames counted with Math.floor)
PauseFramesFloor(pauseDuration, fps, offset) ==
    [i \in 1..(RMul(pauseDuration, Rat(fps, 1)).n
                 \div RMul(pauseDuration, Rat(fps, 1)).d) |->
        Frame(RAdd(offset, Rat(i - 1, fps)),
              Pts(Zero, Zero, Zero, Rat(5, 100)))]

\* the silence frames of a pause marker (lines 44-50)
PauseFrames(pauseDuration, fps, offset) ==
    [i \in 1..Round(RMul(pauseDuration, Rat(fps, 1))) |->
        Frame(RAdd(offset, Rat(i - 1, fps)),
              Pts(Zero, Zero, Zero, Rat(5, 100)))]

\* timeOffset after a pause marker (line 51)
OffsetAfterPause(pauseDuration, offset) == RAdd(offset, pauseDuration)

\* (a closing frame that holds the mouth slightly open)
EndFrameAjar(t) == Frame(t, Pts(Rat(5, 100), Zero, Rat(5, 100), Rat(10, 100)))

\* the closing frame of generateLipSync (lines 99-102)
EndFrame(t) == Frame(t, Pts(Zero, Zero, Zero, Rat(10, 100)))

\* activeEffects after a marker_start (lines 28-29)
PushEffect(stack, name) ==
    LET effect == getMarkerEffect(name) IN
    IF effect.isObject THEN Append(stack, effect) ELSE stack

\* (a pop that checks the name: only the effect the marker names is popped)
PopMatching(stack, name) ==
    IF stack # <<>> /\ stack[Len(stack)] = getMarkerEffect(name)
    THEN SubSeq(stack, 1, Len(stack) - 1) ELSE stack

\* activeEffects.pop() (line 35); pop() of an empty array does nothing
PopEffect(stack, name) ==
    IF stack = <<>> THEN stack ELSE SubSeq(stack, 1, Len(stack) - 1)

Seg == segments[segIdx]
InLoop == gPc = "scan" /\ segIdx <= Len(segments)

\* lines 19-24
GenCall ==
    /\ gPc = "call"
    /\ segments' = parseMarkers(gText)
    /\ segIdx' = 1
    /\ allFrames' = <<>>
    /\ timeOffset' = Zero
    /\ activeEffects' = <<>>
    /\ gPc' = "scan"
    /\ UNCHANGED <<gText, gFps, gSpeed, segEffects, gResult>>
    /\ UNCHANGED <<markerVars, streamVars, faceVars>>

\* lines 27-31
MarkerStartStep ==
    /\ InLoop /\ Seg.type = "marker_start"
    /\ activeEffects' = PushEffect(activeEffects, Seg.name)
    /\ segIdx' = segIdx + 1
    /\ UNCHANGED <<gText, gFps, gSpeed, gPc, segments, allFrames, timeOffset,
                   segEffects, gResult>>
    /\ UNCHANGED <<markerVars, streamVars, faceVars>>

\* lines 33-37
MarkerEndStep ==
    /\ InLoop /\ Seg.type = "marker_end"
    /\ activeEffects' = PopEffect(activeEffects, Seg.name)
    /\ segIdx' = segIdx + 1
    /\ UNCHANGED <<gText, gFps, gSpeed, gPc, segments, allFrames, timeOffset,
                   segEffects, gResult>>
    /\ UNCHANGED <<markerVars, streamVars, faceVars>>

\* lines 39-54
MarkerStep ==
    /\ InLoop /\ Seg.type = "marker"
    /\ LET effect == getMarkerEffect(Seg.name) IN
       IF effect.isObject /\ Truthy(effect.pauseDuration)
       THEN /\ allFrames' = allFrames
                   \o PauseFrames(effect.pauseDuration, gFps, timeOffset)
            /\ timeOffset' = OffsetAfterPause(effect.pauseDuration, timeOffset)
       ELSE UNCHANGED <<allFrames, timeOffset>>
    /\ segIdx' = segIdx + 1
    /\ UNCHANGED <<gText, gFps, gSpeed, gPc, segments, activeEffects,
                   segEffects, gResult>>
    /\ UNCHANGED <<markerVars, streamVars, faceVars>>

\* lines 56-94
TextStep ==
    /\ InLoop /\ Seg.type = "text"
    /\ \E frames \in {TextFrames(Seg.content, activeEffects, gSpeed, gFps,
                                  timeOffset)} :
       /\ allFrames' = allFrames \o frames
       /\ timeOffset' = OffsetAfterText(frames, timeOffset, gFps)
    /\ segEffects' = Append(segEffects, ApplyEffects(activeEffects, gSpeed))
    /\ segIdx' = segIdx + 1
    /\ UNCHANGED <<gText, gFps, gSpeed, gPc, segments, activeEffects, gResult>>
    /\ UNCHANGED <<markerVars, streamVars, faceVars>>

\* lines 97-111; the returned frames are allFrames
GenReturn ==
    /\ gPc = "scan" /\ segIdx > Len(segments)
    /\ allFrames' = IF Len(allFrames) > 0
                    THEN Append(allFrames, EndFrame(timeOffset)) ELSE allFrames
    /\ gResult' = [duration |-> IF Len(allFrames') > 0
                                THEN allFrames'[Len(allFrames')].t ELSE Zero,
                   phonemeCount |-> Len(allFrames')]
    /\ gPc' = "done"
    /\ UNCHANGED <<gText, gFps, gSpeed, segments, segIdx, timeOffset,
                   activeEffects, segEffects>>
    /\ UNCHANGED <<markerVars, streamVars, faceVars>>

GenNext ==
    \/ GenCall \/ MarkerStartStep \/ MarkerEndStep \/ MarkerStep \/ TextStep
    \/ GenReturn

----------------------------------------------------------------------------
(* lipsync.js: streamLipSync                                               *)
(*                                                                         *)
(* Date.now() counts whole milliseconds; a frame's t is kept in units of   *)
(* 1/Sub ms, so that frames can fall between two clock values.  onFrame is *)
(* the caller's code: it may call stop() on the handle once streamLipSync  *)
(* has returned it.                                                        *)

\* (Date.now() - startTime) / 1000, in the unit of the frames' t
Elapsed == Sub * (now - startTime)

\* (a tick that hands over every remaining frame, due or not)
DueEndAll(frames, i, elapsed) == Len(frames)

\* index after the while loop of tick (lines 142-145), from index i (0-based)
RECURSIVE DueEnd(_, _, _)
DueEnd(frames, i, elapsed) ==
    IF i < Len(frames) /\ frames[i + 1] <= elapsed
    THEN DueEnd(frames, i + 1, elapsed) ELSE i

\* (a tick that drops the frames it is late for and hands over the latest)
BurstLatestOnly(from, to) == IF to > from THEN <<to>> ELSE <<>>

\* the frames (1-based positions) the while loop hands to onFrame, in order
Burst(from, to) == [k \in 1..(to - from) |-> from + k]

\* Math.max(1, (nextTime - elapsed) * 1000), as setTimeout takes it: whole ms
Delay(nextTime, elapsed) ==
    LET ms == (nextTime - elapsed) \div Sub IN IF ms < 1 THEN 1 ELSE ms

\* tick() (lines 133-155).  stopAt is the position of the frame whose onFrame
\* call calls stop(), 0 when none does in this tick.
Tick(stopAt) ==
    IF stopped \/ index >= Len(sFrames)
    THEN /\ doneCalls' = IF ~stopped THEN doneCalls + 1 ELSE doneCalls
         /\ timer' = -1
         /\ UNCHANGED <<index, stopped, delivered, deliveredAt, lateFrames,
                        doneAfterStop>>
    ELSE \E end \in {DueEnd(sFrames, index, Elapsed)} :
         /\ stopAt = 0 \/ (index < stopAt /\ stopAt <= end)
         /\ index' = end
         /\ delivered' = delivered \o Burst(index, end)
         /\ deliveredAt' = deliveredAt \o [k \in 1..(end - index) |-> Elapsed]
         /\ stopped' = (stopAt # 0)
         /\ lateFrames' = IF stopAt # 0 THEN lateFrames + (end - stopAt)
                          ELSE lateFrames
         /\ IF end < Len(sFrames)
            THEN /\ timer' = now + Delay(sFrames[end + 1], Elapsed)
                 /\ UNCHANGED <<doneCalls, doneAfterStop>>
            ELSE /\ timer' = -1
                 /\ doneCalls' = doneCalls + 1
                 /\ doneAfterStop' = IF stopAt # 0 THEN doneAfterStop + 1
                                      ELSE doneAfterStop

\* streamLipSync(frames, onFrame, onDone) up to its return (lines 123-165);
\* the first tick runs before the caller holds the handle
StreamStart ==
    /\ sPc = "new"
    /\ sPc' = "returned"
    /\ startTime' = now
    /\ IF Len(sFrames) = 0
       THEN /\ doneCalls' = doneCalls + 1
            /\ UNCHANGED <<index, stopped, timer, delivered, deliveredAt,
                           lateFrames, doneAfterStop>>
       ELSE /\ index = 0 /\ stopped = FALSE
            /\ Tick(0)
    /\ UNCHANGED <<sFrames, now>>
    /\ UNCHANGED <<markerVars, genVars, faceVars>>

\* the timer set by setTimeout(tick, delay) fires, at its time or later
TimerFire ==
    /\ timer # -1 /\ now >= timer
    /\ \E stopAt \in 0..Len(sFrames) : Tick(stopAt)
    /\ UNCHANGED <<sFrames, sPc, now, startTime>>
    /\ UNCHANGED <<markerVars, genVars, faceVars>>

\* the caller calls stop() on the returned handle, outside any tick
\* (lines 161-163; line 126 for an empty sequence)
Stop ==
    /\ sPc = "returned"
    /\ stopped' = IF Len(sFrames) = 0 THEN stopped ELSE TRUE
    /\ UNCHANGED <<sFrames, sPc, now, startTime, index, timer, delivered,
                   deliveredAt, lateFrames, doneCalls, doneAfterStop>>
    /\ UNCHANGED <<markerVars, genVars, faceVars>>

\* a millisecond passes
ClockTick ==
    /\ sPc = "returned"
    /\ now < MaxNow
    /\ now' = now + 1
    /\ UNCHANGED <<sFrames, sPc, startTime, index, stopped, timer, delivered,
                   deliveredAt, lateFrames, doneCalls, doneAfterStop>>
    /\ UNCHANGED <<markerVars, genVars, faceVars>>

StreamNext == StreamStart \/ TimerFire \/ Stop \/ ClockTick

----------------------------------------------------------------------------
(* Input texts: concatenations of at most k pieces, so that marker tokens, *)
(* bare delimiters and plain text meet in every order.                     *)

RECURSIVE Concats(_, _)
Concats(P, k) ==
    IF k = 0 THEN {<<>>}
    ELSE LET S == Concats(P, k - 1) IN S \cup {s \o p : s \in S, p \in P}

\* 'Hello @@emphasis@@world@@/emphasis@@! @@pause@@'  (test.js)
TestText ==
    <<"H","e","l","l","o"," ">> \o StartToken(EMPHASIS)
        \o <<"w","o","r","l","d">> \o EndToken(EMPHASIS)
        \o <<"!"," ">> \o StartToken(PAUSE)

MarkerPieces ==
    { AT2, <<"a">>, <<"/">>, <<" ">>, <<"-">>,
      StartToken(PAUSE), StartToken(LONG_PAUSE), EndToken(UNKNOWN_X) }

MarkerTexts == Concats(MarkerPieces, MaxPieces) \cup {TestText}

----------------------------------------------------------------------------
(* The three components of the model; each specification runs one of them  *)
(* and holds the others idle.                                              *)

MarkerIdle ==
    /\ mText = <<>> /\ mSegments = <<>> /\ mParsed = FALSE
    /\ mOut = <<>> /\ mPrev = <<>> /\ mCalls = 0

MarkerInit ==
    /\ mText \in MarkerTexts
    /\ mSegments = <<>> /\ mParsed = FALSE
    /\ mOut = <<>> /\ mPrev = <<>> /\ mCalls = 0

\* segments = parseMarkers(text)
ParseCall ==
    /\ ~mParsed
    /\ mSegments' = parseMarkers(mText)
    /\ mParsed' = TRUE
    /\ UNCHANGED <<mText, mOut, mPrev, mCalls>>
    /\ UNCHANGED <<genVars, streamVars, faceVars>>

\* out = stripMarkers(text), and then out = stripMarkers(out)
StripCall ==
    /\ mParsed
    /\ mCalls < 2
    /\ mOut' = stripMarkers(IF mCalls = 0 THEN mText ELSE mOut)
    /\ mPrev' = mOut
    /\ mCalls' = mCalls + 1
    /\ UNCHANGED <<mText, mSegments, mParsed>>
    /\ UNCHANGED <<genVars, streamVars, faceVars>>

MarkerNext == ParseCall \/ StripCall


\* the options a caller passes: fps and speed
FpsSet   == {10, 25}
SpeedSet == {Rat(1, 1), Rat(3, 2)}

GenPieces ==
    { StartToken(EMPHASIS), EndToken(EMPHASIS),
      StartToken(UNKNOWN_X), EndToken(UNKNOWN_X),
      StartToken(PAUSE), <<"a","r"," ","H","i","!">> }

GenTexts == Concats(GenPieces, MaxPieces)

NoResult == [duration |-> Zero, phonemeCount |-> 0]

GenIdle ==
    /\ gText = <<>> /\ gFps = 0 /\ gSpeed = Zero /\ gPc = "idle"
    /\ segments = <<>> /\ segIdx = 0 /\ allFrames = <<>> /\ timeOffset = Zero
    /\ activeEffects = <<>> /\ segEffects = <<>> /\ gResult = NoResult

GenInit ==
    /\ gText \in GenTexts /\ gFps \in FpsSet /\ gSpeed \in SpeedSet
    /\ gPc = "call"
    /\ segments = <<>> /\ segIdx = 0 /\ allFrames = <<>> /\ timeOffset = Zero
    /\ activeEffects = <<>> /\ segEffects = <<>> /\ gResult = NoResult

StreamIdle ==
    /\ sFrames = <<>> /\ sPc = "idle" /\ now = 0 /\ startTime = 0
    /\ index = 0 /\ stopped = FALSE /\ timer = -1
    /\ delivered = <<>> /\ deliveredAt = <<>> /\ lateFrames = 0
    /\ doneCalls = 0 /\ doneAfterStop = 0

\* frame sequences as generateLipSync returns them: at most MaxFrames
\* timestamps, non-decreasing, none after the last clock value
FrameTimes == 0..(Sub * MaxNow)
FrameSeqs ==
    UNION { { f \in [1..n -> FrameTimes] :
                \A k \in 1..(n - 1) : f[k] <= f[k + 1] } : n \in 0..MaxFrames }

StreamInit ==
    /\ sFrames \in FrameSeqs /\ sPc = "new" /\ now = 0 /\ startTime = 0
    /\ index = 0 /\ stopped = FALSE /\ timer = -1
    /\ delivered = <<>> /\ deliveredAt = <<>> /\ lateFrames = 0
    /\ doneCalls = 0 /\ doneAfterStop = 0

\* the face path before any of its components is constructed
BlendIdle ==
    /\ bVector = <<>> /\ bPresets = "none" /\ bOut = <<>> /\ bDone = FALSE

EmoIdle ==
    /\ ePresets = "none" /\ decayRate = Zero /\ transitionMs = 0 /\ eNow = 0
    /\ eCurrent = <<>> /\ eTarget = <<>> /\ transitionStart = 0
    /\ transitioning = FALSE /\ lastUpdateTime = 0 /\ eReturned = <<>>
    /\ eVectors = [calls |-> 0, latest |-> <<>>] /\ eAllFinite = TRUE
    /\ ePartial = 0

\* the network path before any of its components is started; NoFrame is the
\* null of latestFrame
NoFrame == [null |-> TRUE]

BridgeIdle ==
    /\ queue = <<>> /\ speaking = FALSE /\ speakPc = "idle"
    /\ retryTimers = 0 /\ arrived = 0 /\ spoken = <<>> /\ evicted = {}

RelayIdle ==
    /\ connState = <<>> /\ connRole = <<>> /\ producers = {}
    /\ viewers = {} /\ latestFrame = NoFrame /\ demoInterval = FALSE
    /\ crashed = FALSE /\ sent = <<>> /\ relayIn = <<>> /\ accepted = <<>>

RecvIdle ==
    /\ rWs = "idle" /\ rStatus = "idle" /\ rFrame = NoFrame
    /\ rReconnectDelay = 0 /\ rTimer = -1 /\ rCalls = <<>> /\ rFails = 0
    /\ rLastValid = NoFrame /\ rDropped = 0 /\ rStopped = FALSE

NetIdle == BridgeIdle /\ RelayIdle /\ RecvIdle

AnimIdle == layers = <<>> /\ aLast = [op |-> "idle"]

SrvIdle == srvLog = <<>> /\ srvLeft = <<>> /\ srvSent = <<>>

LoopIdle ==
    /\ pText = <<>> /\ pFps = 0 /\ pSpeed = 0 /\ pPc = "idle"
    /\ pTotal = 0 /\ pTime = 0 /\ pFrames = 0

SvcIdle == svcWs = <<>> /\ svcDelay = <<>> /\ svcTimers = <<>>

LookIdle ==
    /\ analyzing = FALSE /\ captureCount = 0 /\ lookPc = <<>>
    /\ lookStatus = <<>> /\ lookTicks = 0

RegIdle == handles = <<>> /\ transactions = <<>> /\ regLast = <<>>

MoreIdle == LoopIdle /\ SvcIdle /\ LookIdle /\ RegIdle

RestIdle == BlendIdle /\ AnimIdle /\ SrvIdle /\ MoreIdle

FaceIdle == RestIdle /\ EmoIdle /\ NetIdle

----------------------------------------------------------------------------
(* Specifications.                                                         *)

\* parseMarkers and stripMarkers applied to every input text
MarkerSpecInit == MarkerInit /\ GenIdle /\ StreamIdle /\ FaceIdle
MarkerSpec == MarkerSpecInit /\ [][MarkerNext]_vars

\* generateLipSync on every input text, one loop iteration per step
GenSpecInit == GenInit /\ MarkerIdle /\ StreamIdle /\ FaceIdle
GenSpec == GenSpecInit /\ [][GenNext]_vars


\* streamLipSync on every frame sequence, with every timer lateness
StreamSpecInit == StreamInit /\ MarkerIdle /\ GenIdle /\ FaceIdle
StreamSpec == StreamSpecInit /\ [][StreamNext]_vars

\* the same, with what the runtime guarantees: the synchronous call runs to
\* its return, time passes, and a timer that is due fires
StreamFairSpec ==
    StreamSpec /\ WF_vars(StreamStart) /\ WF_vars(ClockTick)
               /\ WF_vars(TimerFire)


----------------------------------------------------------------------------
(* Properties of markers.js.                                               *)

\* a segment written back as source text
Unparse(seg) ==
    CASE seg.type = "text"       -> seg.content
      [] seg.type = "marker_end" -> EndToken(seg.name)
      [] OTHER                   -> StartToken(seg.name)

RECURSIVE UnparseAll(_)
UnparseAll(segs) ==
    IF segs = <<>> THEN <<>> ELSE Unparse(Head(segs)) \o UnparseAll(Tail(segs))

ContainsMarker(text) == FindMatch(text, 1) # 0

IsName(name) ==
    /\ name # <<>> /\ IsWordChar(name[1])
    /\ \A k \in 1..Len(name) : IsNameChar(name[k])

\* C5: stripMarkers is idempotent: stripping the output of stripMarkers
\* again changes nothing (the output holds no marker token any more).
C5_StripIdempotent == mCalls = 2 => mOut = mPrev

\* C6: parseMarkers returns the segments in source order and loses nothing
\* (written back, they give the input exactly); a token with a slash is a
\* marker_end, pause and long-pause are self-closing markers, every other
\* name a marker_start; no text segment is empty, and none holds a token.
C6_ParseRoundTrip ==
    mParsed =>
        /\ UnparseAll(mSegments) = mText
        /\ \A k \in 1..Len(mSegments) :
            LET seg == mSegments[k] IN
            /\ seg.type \in {"text", "marker_start", "marker_end", "marker"}
            /\ seg.type = "text" =>
                  /\ seg.content # <<>>
                  /\ ~ContainsMarker(seg.content)
                  /\ k < Len(mSegments) => mSegments[k + 1].type # "text"
            /\ seg.type # "text" => IsName(seg.name)
            /\ seg.type = "marker" => seg.name \in {PAUSE, LONG_PAUSE}
            /\ seg.type = "marker_start" => seg.name \notin {PAUSE, LONG_PAUSE}

\* the test's text has been parsed into its six segments
C6_Witness ==
    /\ mParsed /\ mText = TestText
    /\ mSegments =
         << TextSegment(<<"H","e","l","l","o"," ">>),
            MarkerSegment("marker_start", EMPHASIS),
            TextSegment(<<"w","o","r","l","d">>),
            MarkerSegment("marker_end", EMPHASIS),
            TextSegment(<<"!"," ">>),
            MarkerSegment("marker", PAUSE) >>

----------------------------------------------------------------------------
(* Properties of generateLipSync.                                          *)

Returned == gPc = "done"
AtText   == InLoop /\ Seg.type = "text"

\* the scope stack the loop of generateLipSync builds over segs
RECURSIVE StackAfter(_)
StackAfter(segs) ==
    IF segs = <<>> THEN <<>>
    ELSE LET seg  == segs[Len(segs)]
             rest == StackAfter(SubSeq(segs, 1, Len(segs) - 1))
         IN  CASE seg.type = "marker_start" -> PushEffect(rest, seg.name)
               [] seg.type = "marker_end"   -> PopEffect(rest, seg.name)
               [] OTHER                     -> rest

\* the names of the scopes open after segs, innermost last; ok is FALSE when
\* some marker_end did not close the innermost open scope
RECURSIVE OpenScopes(_)
OpenScopes(segs) ==
    IF segs = <<>> THEN [ok |-> TRUE, open |-> <<>>]
    ELSE LET seg  == segs[Len(segs)]
             rest == OpenScopes(SubSeq(segs, 1, Len(segs) - 1))
         IN  CASE seg.type = "marker_start" ->
                    [rest EXCEPT !.open = Append(@, seg.name)]
               [] seg.type = "marker_end" ->
                    IF rest.open # <<>> /\ rest.open[Len(rest.open)] = seg.name
                    THEN [rest EXCEPT !.open = SubSeq(@, 1, Len(@) - 1)]
                    ELSE [rest EXCEPT !.ok = FALSE]
               [] OTHER -> rest

WellNested(segs) == OpenScopes(segs).ok

\* the effects of the named scopes, for the names that have one
RECURSIVE EffectsOf(_)
EffectsOf(names) ==
    IF names = <<>> THEN <<>>
    ELSE LET e == getMarkerEffect(Head(names)) IN
         (IF e.isObject THEN <<e>> ELSE <<>>) \o EffectsOf(Tail(names))

IsUnknown(seg) ==
    /\ seg.type \in {"marker_start", "marker_end"}
    /\ seg.name \notin DOMAIN MARKER_EFFECTS

KnownOnly(segs) == SelectSeq(segs, LAMBDA seg : ~IsUnknown(seg))

Before == SubSeq(segments, 1, segIdx - 1)

InUnit(x) == RLe(Zero, x) /\ RLe(x, One)

\* C3: the returned frames have non-decreasing timestamps, across text
\* segments and pause frames too.
C3_TimesNonDecreasing ==
    Returned =>
        \A k \in 1..(Len(allFrames) - 1) :
            RLe(allFrames[k].t, allFrames[k + 1].t)

\* frames were returned for text, a pause, and text again
C3_Witness ==
    /\ Returned
    /\ \E i, j, k \in 1..Len(segments) :
        /\ i < j /\ j < k
        /\ segments[i].type = "text" /\ segments[j].type = "marker"
        /\ segments[k].type = "text"
    /\ \E k \in 1..(Len(allFrames) - 1) :
        RLt(allFrames[k].t, allFrames[k + 1].t)

\* C4: a non-empty returned sequence ends with the mouth closed, whatever the
\* text ends with.
C4_EndsClosed ==
    (Returned /\ Len(allFrames) > 0) =>
        /\ allFrames[Len(allFrames)].pts.mouth_open = Zero
        /\ allFrames[Len(allFrames)].pts.jaw_open = Zero

\* frames were returned for a text that ends with a scoped marker
C4_Witness ==
    /\ Returned /\ Len(allFrames) > 1
    /\ segments[Len(segments)].type = "marker_start"

\* C7: a scoped marker with a name the effect table does not have has no
\* effect: every text segment gets the speed, mouth scale and brow raise it
\* would get with the unknown tokens absent.
C7_UnknownMarkerNoEffect ==
    (AtText /\ WellNested(segments)) =>
        ApplyEffects(activeEffects, gSpeed)
            = ApplyEffects(StackAfter(KnownOnly(Before)), gSpeed)

\* C8: at each text segment of a well-nested text, activeEffects holds
\* exactly the effects of the open scopes, in nesting order.
C8_StackIsOpenScopes ==
    (AtText /\ WellNested(segments)) =>
        activeEffects = EffectsOf(OpenScopes(Before).open)

TextCount(segs) == Len(SelectSeq(segs, LAMBDA seg : seg.type = "text"))

C10_MouthInRange ==
    Returned =>
        \A k \in 1..Len(allFrames) :
            /\ InUnit(allFrames[k].pts.mouth_open)
            /\ InUnit(allFrames[k].pts.mouth_wide)
            /\ InUnit(allFrames[k].pts.jaw_open)

\* frames were returned for text inside two nested emphasis scopes, with a
\* mouth opening that reached 1
C10_Witness ==
    /\ Returned
    /\ \E k \in 1..Len(segEffects) :
        RLt(Rat(13, 10), segEffects[k].mouthScale)
    /\ \E k \in 1..Len(allFrames) : allFrames[k].pts.mouth_open = One

----------------------------------------------------------------------------
(* Properties of streamLipSync.                                            *)

AllDelivered == Len(delivered) = Len(sFrames)
InOrderOnce  == delivered = [k \in 1..Len(delivered) |-> k]

\* C1: once stop() has been called, onFrame is never invoked again, whether
\* stop() is called between two ticks or from inside an onFrame callback
\* while one tick is delivering several due frames: no onFrame call is ever
\* made with stopped set.
C1_NoFrameAfterStop == lateFrames = 0

\* C2: if stop() is never called, every frame is handed to onFrame exactly
\* once and in sequence order, a tick hands over every frame whose t has
\* passed (none is skipped, however late the tick), onDone is called exactly
\* once, after the last frame, and the stream does get there.
C2_DeliversAllInOrder ==
    /\ [](~stopped =>
            /\ InOrderOnce /\ Len(delivered) <= Len(sFrames)
            /\ doneCalls <= 1
            /\ (doneCalls = 1 <=> (sPc = "returned" /\ AllDelivered)))
    /\ [][(~stopped' /\ delivered' # delivered) =>
            \A j \in 1..Len(sFrames) :
                sFrames[j] <= Sub * (now' - startTime')
                    => j <= Len(delivered')]_vars
    /\ <>(stopped \/ (doneCalls = 1 /\ AllDelivered))

\* a late tick has handed over two frames with different times at once,
\* every frame has been delivered, onDone called, and stop() never was
C2_Witness ==
    /\ ~stopped /\ doneCalls = 1 /\ AllDelivered
    /\ \E k \in 1..(Len(sFrames) - 1) :
        /\ sFrames[k] < sFrames[k + 1]
        /\ deliveredAt[k] = deliveredAt[k + 1]
        /\ deliveredAt[k] > sFrames[k + 1]


----------------------------------------------------------------------------
(* emotion.js: numbers.  A value is a rational, NaN, or something that is  *)
(* not a number at all (a string, a function).                             *)

NaN == [n |-> 1, d |-> 0]
NotNumber == [n |-> 0, d |-> -1]
IsNum(x) == x.d > 0

\* a + b: with a string or a function on either side it concatenates
JAdd(a, b) ==
    IF a = NotNumber \/ b = NotNumber THEN NotNumber
    ELSE IF IsNum(a) /\ IsNum(b) THEN RAdd(a, b) ELSE NaN
\* a - b and a * b convert both sides to numbers
JSub(a, b) == IF IsNum(a) /\ IsNum(b) THEN RSub(a, b) ELSE NaN
JMul(a, b) == IF IsNum(a) /\ IsNum(b) THEN RMul(a, b) ELSE NaN
\* Math.min and Math.max return NaN when an argument is NaN
JMin(a, b) == IF IsNum(a) /\ IsNum(b) THEN RMin(a, b) ELSE NaN
JMax(a, b) == IF IsNum(a) /\ IsNum(b) THEN RMax(a, b) ELSE NaN

\* hundredths
H(x) == Rat(x, 100)

----------------------------------------------------------------------------
(* emotion.js: the tables                                                  *)

NEUTRAL ==
    [ left_eye_open |-> One, right_eye_open |-> One,
      left_pupil_x |-> Zero, left_pupil_y |-> Zero,
      right_pupil_x |-> Zero, right_pupil_y |-> Zero,
      left_brow_height |-> Zero, left_brow_angle |-> Zero,
      right_brow_height |-> Zero, right_brow_angle |-> Zero,
      mouth_open |-> Zero, mouth_wide |-> Zero, mouth_smile |-> Zero,
      jaw_open |-> Zero, face_scale |-> One,
      head_pitch |-> Zero, head_yaw |-> Zero, head_roll |-> Zero ]

RANGES ==
    [ left_eye_open |-> <<H(0), H(100)>>, right_eye_open |-> <<H(0), H(100)>>,
      left_pupil_x |-> <<H(-10), H(10)>>, left_pupil_y |-> <<H(-10), H(10)>>,
      right_pupil_x |-> <<H(-10), H(10)>>, right_pupil_y |-> <<H(-10), H(10)>>,
      left_brow_height |-> <<H(-100), H(100)>>,
      left_brow_angle |-> <<H(-50), H(50)>>,
      right_brow_height |-> <<H(-100), H(100)>>,
      right_brow_angle |-> <<H(-50), H(50)>>,
      mouth_open |-> <<H(0), H(100)>>, mouth_wide |-> <<H(0), H(100)>>,
      mouth_smile |-> <<H(-50), H(50)>>,
      jaw_open |-> <<H(0), H(100)>>, face_scale |-> <<H(50), H(150)>>,
      head_pitch |-> <<H(-10), H(10)>>, head_yaw |-> <<H(-10), H(10)>>,
      head_roll |-> <<H(-10), H(10)>> ]

PRESETS ==
    [ joy |->
        [ mouth_smile |-> H(45), left_eye_open |-> H(-20),
          right_eye_open |-> H(-20), left_brow_height |-> H(10),
          right_brow_height |-> H(10) ],
      sadness |->
        [ mouth_smile |-> H(-35), left_brow_height |-> H(15),
          right_brow_height |-> H(15), left_brow_angle |-> H(15),
          right_brow_angle |-> H(-15), left_eye_open |-> H(-30),
          right_eye_open |-> H(-30) ],
      anger |->
        [ mouth_smile |-> H(-25), left_brow_height |-> H(-30),
          right_brow_height |-> H(-30), left_brow_angle |-> H(-20),
          right_brow_angle |-> H(20), jaw_open |-> H(10),
          left_eye_open |-> H(-10), right_eye_open |-> H(-10) ],
      fear |->
        [ left_eye_open |-> H(0), right_eye_open |-> H(0),
          left_brow_height |-> H(40), right_brow_height |-> H(40),
          left_brow_angle |-> H(10), right_brow_angle |-> H(-10),
          mouth_open |-> H(30), jaw_open |-> H(20) ],
      surprise |->
        [ left_eye_open |-> H(0), right_eye_open |-> H(0),
          left_brow_height |-> H(50), right_brow_height |-> H(50),
          mouth_open |-> H(50), jaw_open |-> H(30) ],
      disgust |->
        [ mouth_smile |-> H(-20), left_brow_height |-> H(-15),
          right_brow_height |-> H(10), left_eye_open |-> H(-15),
          right_eye_open |-> H(-25), mouth_wide |-> H(15) ],
      confidence |->
        [ mouth_smile |-> H(12), left_eye_open |-> H(-15),
          right_eye_open |-> H(-15), head_pitch |-> H(-2),
          left_brow_height |-> H(-5), right_brow_height |-> H(-5) ],
      uncertainty |->
        [ left_brow_height |-> H(20), right_brow_height |-> H(-10),
          mouth_smile |-> H(-5), head_roll |-> H(3), head_yaw |-> H(2) ],
      thinking |->
        [ left_brow_height |-> H(5), right_brow_height |-> H(-10),
          left_eye_open |-> H(-15), right_eye_open |-> H(-20),
          mouth_smile |-> H(-5), left_pupil_x |-> H(4),
          right_pupil_x |-> H(4), left_pupil_y |-> H(-3),
          right_pupil_y |-> H(-3) ],
      excitement |->
        [ mouth_open |-> H(20), mouth_smile |-> H(20),
          left_brow_height |-> H(30), right_brow_height |-> H(30),
          mouth_wide |-> H(15) ],
      calm |->
        [ left_eye_open |-> H(-25), right_eye_open |-> H(-25),
          mouth_smile |-> H(5), left_brow_height |-> H(-5),
          right_brow_height |-> H(-5) ],
      urgency |->
        [ left_eye_open |-> H(0), right_eye_open |-> H(0),
          left_brow_height |-> H(15), right_brow_height |-> H(15),
          mouth_open |-> H(10), jaw_open |-> H(5), head_pitch |-> H(2) ],
      reverence |->
        [ head_pitch |-> H(4), left_eye_open |-> H(-20),
          right_eye_open |-> H(-20), mouth_smile |-> H(8),
          left_brow_height |-> H(10), right_brow_height |-> H(10) ] ]

\* a caller's own presets (opts.presets, or blend's second argument): one
\* emotion whose preset lists a control point and two names that are not
\* control points
CUSTOM_PRESETS ==
    [ odd |-> [ mouth_open |-> H(50), tail_wag |-> H(50), toString |-> H(50) ] ]

PresetTable(which) == IF which = "custom" THEN CUSTOM_PRESETS ELSE PRESETS

\* the names every object literal inherits from Object.prototype
ObjectPrototypeNames ==
    { "constructor", "toString", "valueOf", "toLocaleString",
      "hasOwnProperty", "isPrototypeOf", "propertyIsEnumerable", "__proto__" }

----------------------------------------------------------------------------
(* emotion.js: blend                                                       *)

\* presets[emotion]: the preset, an inherited object with no entries of its
\* own, or undefined
LookupPreset(presets, emotion) ==
    IF emotion \in DOMAIN presets
    THEN [truthy |-> TRUE, entries |-> presets[emotion]]
    ELSE IF emotion \in ObjectPrototypeNames
    THEN [truthy |-> TRUE, entries |-> <<>>]
    ELSE [truthy |-> FALSE, entries |-> <<>>]

\* a weight with the upper clamp alone
ClampWeightAbove(weight) == JMin(One, weight)

\* Math.max(0, Math.min(1, weight))
ClampWeight(weight) == JMax(Zero, JMin(One, weight))

\* for (const [point, delta] of Object.entries(preset))
\*     if (point in frame) frame[point] += w * delta
\* `in` also finds the names frame inherits; adding a number to an inherited
\* function makes a string, stored as an own property
AddPreset(frame, w, entries) ==
    [ k \in DOMAIN frame \cup
            {p \in DOMAIN entries : p \in ObjectPrototypeNames} |->
        IF k \in DOMAIN entries
        THEN IF k \in DOMAIN frame
             THEN JAdd(frame[k], JMul(w, entries[k]))
             ELSE NotNumber
        ELSE frame[k] ]

RECURSIVE Accumulate(_, _, _, _)
Accumulate(frame, stateVector, presets, i) ==
    IF i > Len(stateVector) THEN frame
    ELSE LET preset == LookupPreset(presets, stateVector[i].emotion)
             weight == stateVector[i].weight
         IN  IF ~preset.truthy \/ weight = NotNumber
             THEN Accumulate(frame, stateVector, presets, i + 1)
             ELSE Accumulate(AddPreset(frame, ClampWeight(weight),
                                       preset.entries),
                             stateVector, presets, i + 1)

\* frame[point] = Math.max(min, Math.min(max, frame[point]))
ClampToRanges(frame) ==
    [ k \in DOMAIN frame |->
        IF k \in DOMAIN RANGES
        THEN JMax(RANGES[k][1], JMin(RANGES[k][2], frame[k]))
        ELSE frame[k] ]

blend(stateVector, presets) ==
    ClampToRanges(Accumulate(NEUTRAL, stateVector, presets, 1))

----------------------------------------------------------------------------
(* emotion.js: lerp and EmotionDriver                                      *)

\* obj[key] ?? NEUTRAL[key] ?? 0
KeyOrNeutral(obj, key) ==
    IF key \in DOMAIN obj THEN obj[key]
    ELSE IF key \in ObjectPrototypeNames THEN NotNumber
    ELSE IF key \in DOMAIN NEUTRAL THEN NEUTRAL[key]
    ELSE Zero

\* a + (b - a) * t, over one denominator when all three are numbers
Mix(a, b, t) ==
    IF IsNum(a) /\ IsNum(b) /\ IsNum(t)
    THEN Rat(a.n * b.d * t.d + (b.n * a.d - a.n * b.d) * t.n,
             a.d * b.d * t.d)
    ELSE JAdd(a, JMul(JSub(b, a), t))

emotionLerp(from, to, t) ==
    [ key \in DOMAIN from \cup DOMAIN to |->
        Mix(KeyOrNeutral(from, key), KeyOrNeutral(to, key), t) ]

\* opts.transitionMs ?? 200
DefaultTransitionMs == 200
\* if (timeSinceUpdate > 2000)
DecayAfter == 2000
\* the clock is read every TickMs, or after a long gap
TickMs == 100

\* Math.min(1, elapsed / this.transitionMs)
Progress(elapsed, ms) == RMin(One, Rat(elapsed, ms))
\* 1 - Math.pow(1 - t, 3)
EaseOut(t) ==
    LET u == RSub(One, t) IN RSub(One, RMul(u, RMul(u, u)))


\* every control point of v is a number within 1/EpsInv of its NEUTRAL value
Settled(v) ==
    \A k \in DOMAIN NEUTRAL :
        /\ k \in DOMAIN v /\ IsNum(v[k])
        /\ RLe(Abs0(RSub(v[k], NEUTRAL[k])), Rat(1, EpsInv))

\* typeof weight === 'number'
IsNumberWeight(w) == w # NotNumber
AllFinite(stateVector) ==
    \A i \in 1..Len(stateVector) : IsNum(stateVector[i].weight)

\* update(stateVector)
Update(stateVector) ==
    /\ eVectors.calls < MaxUpdates
    /\ eNow + DecayAfter + TickMs <= MaxEmoNow
    /\ eTarget' = blend(stateVector, PresetTable(ePresets))
    /\ transitionStart' = eNow
    /\ transitioning' = TRUE
    /\ lastUpdateTime' = eNow
    /\ eVectors' = [calls |-> eVectors.calls + 1, latest |-> stateVector]
    /\ eAllFinite' = (eAllFinite /\ AllFinite(stateVector))
    /\ UNCHANGED <<ePresets, decayRate, transitionMs, eNow, eCurrent,
                   eReturned, ePartial>>
    /\ UNCHANGED <<lipVars, restVars, netVars>>

\* timeSinceUpdate > 2000
DecayDue(timeSinceUpdate) == timeSinceUpdate > DecayAfter

\* frame()
FrameCall ==
    \E t \in {Progress(eNow - transitionStart, transitionMs)} :
    \E eased \in {EaseOut(t)} :
    \E partial \in {RLt(Zero, t) /\ RLt(t, One)} :
    /\ IF transitioning
       THEN /\ partial => ePartial < MaxPartial
            /\ \E moved \in {emotionLerp(eCurrent, eTarget, eased)} :
                 eCurrent' = IF RLe(One, t) THEN eTarget ELSE moved
            /\ transitioning' = ~RLe(One, t)
            /\ ePartial' = IF partial THEN ePartial + 1 ELSE ePartial
       ELSE /\ IF DecayDue(eNow - lastUpdateTime)
               THEN \E moved \in {emotionLerp(eCurrent, NEUTRAL, decayRate)} :
                      \* once settled, only calls that change nothing are explored
                      /\ moved = eCurrent \/ ~Settled(eCurrent)
                      /\ eCurrent' = moved
               ELSE eCurrent' = eCurrent
            /\ UNCHANGED <<transitioning, ePartial>>
    /\ eReturned' = <<eCurrent'>>
    /\ UNCHANGED <<ePresets, decayRate, transitionMs, eNow, eTarget,
                   transitionStart, lastUpdateTime, eVectors, eAllFinite>>
    /\ UNCHANGED <<lipVars, restVars, netVars>>

\* performance.now() advances
EmoClock(d) ==
    /\ eNow + d <= MaxEmoNow
    /\ eNow' = eNow + d
    /\ UNCHANGED <<ePresets, decayRate, transitionMs, eCurrent, eTarget,
                   transitionStart, transitioning, lastUpdateTime, eReturned,
                   eVectors, eAllFinite, ePartial>>
    /\ UNCHANGED <<lipVars, restVars, netVars>>

Entry(emotion, weight) == [emotion |-> emotion, weight |-> weight]

\* the state vectors pushed to the driver: two emotions whose smiles add up
\* past the range, a weight above 1, a negative weight, a weight that is
\* NaN, an emotion without a preset, and the emotion of the custom presets
EmoVectors ==
    { << Entry("joy", One), Entry("excitement", One) >>,
      << Entry("sadness", H(150)) >>,
      << Entry("joy", H(-50)) >>,
      << Entry("joy", NaN) >>,
      << Entry("nope", One), Entry("joy", H(50)) >>,
      << Entry("odd", One) >> }

UpdateCall == \E stateVector \in EmoVectors : Update(stateVector)
ClockAdvance == \E d \in {TickMs, DecayAfter} : EmoClock(d)

\* the options a driver is constructed with: presets and decayRate
DriverOptions ==
    { <<"default", Zero>>, <<"default", H(50)>>, <<"default", One>>,
      <<"custom", H(50)>> }

\* new EmotionDriver(opts)
EmoInit ==
    /\ \E opts \in DriverOptions : ePresets = opts[1] /\ decayRate = opts[2]
    /\ transitionMs = DefaultTransitionMs
    /\ eNow = 0
    /\ eCurrent = NEUTRAL /\ eTarget = NEUTRAL
    /\ transitionStart = 0 /\ transitioning = FALSE /\ lastUpdateTime = 0
    /\ eReturned = <<>> /\ ePartial = 0
    /\ eVectors = [calls |-> 0, latest |-> <<>>] /\ eAllFinite = TRUE

EmoNext == UpdateCall \/ FrameCall \/ ClockAdvance

\* blend(stateVector, presets), once
BlendCall ==
    /\ ~bDone
    /\ bOut' = blend(bVector, PresetTable(bPresets))
    /\ bDone' = TRUE
    /\ UNCHANGED <<bVector, bPresets>>
    /\ UNCHANGED <<lipVars, emoVars, netVars, animVars, srvVars, moreVars>>

BlendNames == {"joy", "excitement", "sadness", "nope", "constructor", "odd"}
BlendWeights == {H(-50), H(50), One, H(150), NaN, NotNumber}
BlendEntries == {Entry(e, w) : e \in BlendNames, w \in BlendWeights}

\* the objects of at most MaxEntries entries: no emotion twice
BlendVectors ==
    UNION { { v \in [1..n -> BlendEntries] :
                \A i, j \in 1..n : i # j => v[i].emotion # v[j].emotion }
            : n \in 0..MaxEntries }

BlendInit ==
    /\ bVector \in BlendVectors
    /\ bPresets \in {"default", "custom"}
    /\ bOut = <<>> /\ bDone = FALSE

BlendNext == BlendCall

\* blend applied to every state vector
BlendSpecInit ==
    /\ BlendInit /\ AnimIdle /\ SrvIdle /\ MoreIdle /\ EmoIdle /\ NetIdle
    /\ MarkerIdle /\ GenIdle /\ StreamIdle
BlendSpec == BlendSpecInit /\ [][BlendNext]_vars

\* an EmotionDriver under every interleaving of update(), frame() and time
EmoSpecInit ==
    EmoInit /\ RestIdle /\ NetIdle /\ MarkerIdle /\ GenIdle /\ StreamIdle
EmoSpec == EmoSpecInit /\ [][EmoNext]_vars

\* the same, where the render loop keeps calling frame() and time passes
EmoFairSpec == EmoSpec /\ WF_vars(FrameCall) /\ WF_vars(ClockAdvance)


----------------------------------------------------------------------------
(* Properties of emotion.js.                                               *)

\* every control point of v is a number inside its declared range
InRanges(v) ==
    \A k \in DOMAIN RANGES :
        /\ k \in DOMAIN v /\ IsNum(v[k])
        /\ RLe(RANGES[k][1], v[k]) /\ RLe(v[k], RANGES[k][2])

\* C11: every vector blend returns (the driver's target) and every vector
\* frame() returns has each field inside its declared range, whatever
\* numeric weights were pushed.
C11_BoundedOutput ==
    /\ InRanges(eTarget)
    /\ eReturned # <<>> => InRanges(eReturned[1])

\* the ranges do hold as long as every weight pushed is a finite number
BoundedWhenFinite ==
    eAllFinite => C11_BoundedOutput

\* the weighted sum: over the entries whose emotion has a preset that
\* lists the field, clamp01(weight) * preset[field]
RECURSIVE DeltaSum(_, _, _, _)
DeltaSum(stateVector, presets, field, i) ==
    IF i > Len(stateVector) THEN Zero
    ELSE LET e == stateVector[i].emotion
             rest == DeltaSum(stateVector, presets, field, i + 1)
         IN  IF e \in DOMAIN presets /\ field \in DOMAIN presets[e]
             THEN JAdd(JMul(JMax(Zero, JMin(One, stateVector[i].weight)),
                            presets[e][field]), rest)
             ELSE rest

ClampField(field, x) == JMax(RANGES[field][1], JMin(RANGES[field][2], x))

Expected(stateVector, presets) ==
    [ field \in DOMAIN NEUTRAL |->
        ClampField(field, JAdd(NEUTRAL[field],
                               DeltaSum(stateVector, presets, field, 1))) ]

Orders(n) ==
    { f \in [1..n -> 1..n] : \A i, j \in 1..n : i # j => f[i] # f[j] }
Permuted(v, f) == [i \in 1..Len(v) |-> v[f[i]]]

ControlPoints(v) == [field \in DOMAIN NEUTRAL |-> v[field]]

C13_ExactlyTheControlPoints ==
    /\ DOMAIN eTarget = DOMAIN NEUTRAL
    /\ eReturned # <<>> => DOMAIN eReturned[1] = DOMAIN NEUTRAL

\* with the canonical presets no name is added or lost
ControlPointsWhenCanonical ==
    ePresets = "default" => C13_ExactlyTheControlPoints

\* a frame() call in the decay branch, and one in the hold before it
DecayStep ==
    /\ eReturned' # eReturned \/ eCurrent' # eCurrent
    /\ ~transitioning /\ eNow - lastUpdateTime > DecayAfter
HoldStep ==
    /\ ~transitioning /\ eNow - lastUpdateTime <= DecayAfter
    /\ eNow' = eNow /\ eVectors' = eVectors

\* every field has moved toward NEUTRAL by the factor decayRate
MovedTowardNeutral ==
    \A k \in DOMAIN NEUTRAL :
        /\ k \in DOMAIN eCurrent' /\ IsNum(eCurrent'[k])
        /\ RSub(eCurrent'[k], NEUTRAL[k])
             = RMul(RSub(One, decayRate), RSub(eCurrent[k], NEUTRAL[k]))

\* C14: with no further update(), frame() calls bring every field within
\* epsilon of NEUTRAL; a completed pose is held for 2 s and after that each
\* frame() moves every field toward NEUTRAL by the factor decayRate.
C14_DecaysToNeutral ==
    /\ <>[]Settled(eCurrent)
    /\ [][DecayStep => MovedTowardNeutral]_vars
    /\ [][HoldStep => eCurrent' = eCurrent]_vars

\* the decay does reach NEUTRAL when the weights are finite numbers, the
\* presets canonical and decayRate positive
DecayWhenFinite ==
    /\ (<>[](/\ decayRate # Zero /\ ePresets = "default"
             /\ eAllFinite))
          => <>[]Settled(eCurrent)
    /\ [][(/\ DecayStep /\ ePresets = "default"
           /\ eAllFinite)
             => MovedTowardNeutral]_vars
    /\ [][HoldStep => eCurrent' = eCurrent]_vars

----------------------------------------------------------------------------
(* The AgentChat bridge: handleMessage, enqueue, drainQueue and speak.     *)
(* A queued message is represented by its arrival number; its text is not  *)
(* kept.  speakingUntil is written and never read, and is left out.        *)

\* if (queue.length >= 20)
QueueLimit == 20
\* const dropped = queue.length - 10
QueueKeep == 10

\* an overflow rule that keeps the oldest entries
SpliceKeepOldest(q) ==
    IF Len(q) >= QueueLimit THEN SubSeq(q, 1, QueueKeep) ELSE q

\* the queue after queue.splice(0, queue.length - 10) when it holds 20
Splice(q) ==
    IF Len(q) >= QueueLimit
    THEN LET dropped == Len(q) - QueueKeep IN SubSeq(q, dropped + 1, Len(q))
    ELSE q

Elements(q) == {q[i] : i \in 1..Len(q)}

\* (a drainQueue that does not look at the speaking flag)
DrainQueueAlways(q, sp, pc) ==
    IF q = <<>>
    THEN /\ queue' = q /\ speaking' = sp /\ speakPc' = pc
         /\ spoken' = spoken
    ELSE /\ queue' = Tail(q) /\ speaking' = TRUE /\ speakPc' = "fetch"
         /\ spoken' = Append(spoken, Head(q))

\* drainQueue() on the queue q, with the flag sp and speak() at pc:
\*   if (speaking || queue.length === 0) return
\*   speak(queue.shift().text), which sets speaking and starts the fetch
DrainQueue(q, sp, pc) ==
    IF sp \/ q = <<>>
    THEN /\ queue' = q /\ speaking' = sp /\ speakPc' = pc
         /\ spoken' = spoken
    ELSE /\ queue' = Tail(q) /\ speaking' = TRUE /\ speakPc' = "fetch"
         /\ spoken' = Append(spoken, Head(q))

\* enqueue(text, sender)
Enqueue ==
    /\ arrived < MaxArrivals
    /\ arrived' = arrived + 1
    /\ evicted' = evicted \cup (Elements(queue) \ Elements(Splice(queue)))
    /\ DrainQueue(Append(Splice(queue), arrived + 1), speaking, speakPc)
    /\ UNCHANGED retryTimers

\* msg.text: a string of characters, or a value that is not a string
Str(chars) == [string |-> TRUE, chars |-> chars]
NoText == [string |-> FALSE, chars |-> <<>>]
AGENTCHAT_CHANNEL == "#general"

\* the tests of handleMessage that let a message through to enqueue
Accepts(msg) ==
    /\ msg.type # "error"
    /\ msg.type = "message"
    /\ ~(msg.channel # "" /\ msg.channel # AGENTCHAT_CHANNEL)
    /\ msg.text.string /\ msg.text.chars # <<>>
    /\ Len(Trim(msg.text.chars)) >= 2
    /\ Head(Trim(msg.text.chars)) \notin {"/", "{"}

BridgeTexts ==
    { Str(<<"h", "i">>), Str(<<" ", "a", " ">>), Str(<<"a">>),
      Str(<<"/", "m", "e">>), Str(<<"{", "}">>), Str(<<>>), NoText }
BridgeMessages ==
    [ type : {"message", "error", "join"},
      channel : {"", "#general", "#other"},
      text : BridgeTexts ]

\* ws.on('message'): handleMessage(msg)
HandleMessage ==
    /\ speakPc # "idle"
    /\ \E msg \in BridgeMessages :
          IF Accepts(msg) THEN Enqueue ELSE UNCHANGED bridgeVars
    /\ UNCHANGED <<lipVars, restVars, emoVars, relayVars, recvVars>>

\* speak(): the fetch resolves with res.ok and the utterance timer is set
FetchOk ==
    /\ speakPc = "fetch"
    /\ speakPc' = "timer"
    /\ UNCHANGED <<queue, speaking, retryTimers, arrived, spoken, evicted>>
    /\ UNCHANGED <<lipVars, restVars, emoVars, relayVars, recvVars>>

\* speak(): the fetch resolves with !res.ok
FetchNotOk ==
    /\ speakPc = "fetch"
    /\ DrainQueue(queue, FALSE, "none")
    /\ UNCHANGED <<retryTimers, arrived, evicted>>
    /\ UNCHANGED <<lipVars, restVars, emoVars, relayVars, recvVars>>

\* (a catch block that clears the flag and sets no retry timer)
FetchFailNoRetry ==
    /\ speakPc = "fetch"
    /\ speaking' = FALSE /\ speakPc' = "none"
    /\ UNCHANGED <<queue, retryTimers, arrived, spoken, evicted>>
    /\ UNCHANGED <<lipVars, restVars, emoVars, relayVars, recvVars>>

\* (a catch block that puts the failed message back at the head of the queue)
FetchFailRequeue ==
    /\ speakPc = "fetch"
    /\ retryTimers < MaxRetryTimers
    /\ speaking' = FALSE /\ speakPc' = "none"
    /\ retryTimers' = retryTimers + 1
    /\ queue' = <<spoken[Len(spoken)]>> \o queue
    /\ UNCHANGED <<arrived, spoken, evicted>>
    /\ UNCHANGED <<lipVars, restVars, emoVars, relayVars, recvVars>>

\* speak(): the fetch throws; drainQueue is retried after 2 s
FetchFail ==
    /\ speakPc = "fetch"
    /\ retryTimers < MaxRetryTimers
    /\ speaking' = FALSE /\ speakPc' = "none"
    /\ retryTimers' = retryTimers + 1
    /\ UNCHANGED <<queue, arrived, spoken, evicted>>
    /\ UNCHANGED <<lipVars, restVars, emoVars, relayVars, recvVars>>

\* the timer set after a successful fetch: speaking = false; drainQueue()
SpeakTimerFire ==
    /\ speakPc = "timer"
    /\ DrainQueue(queue, FALSE, "none")
    /\ UNCHANGED <<retryTimers, arrived, evicted>>
    /\ UNCHANGED <<lipVars, restVars, emoVars, relayVars, recvVars>>

\* setTimeout(drainQueue, 2000) fires
RetryTimerFire ==
    /\ retryTimers > 0
    /\ retryTimers' = retryTimers - 1
    /\ DrainQueue(queue, speaking, speakPc)
    /\ UNCHANGED <<arrived, evicted>>
    /\ UNCHANGED <<lipVars, restVars, emoVars, relayVars, recvVars>>

BridgeInit ==
    /\ queue = <<>> /\ speaking = FALSE /\ speakPc = "none"
    /\ retryTimers = 0 /\ arrived = 0 /\ spoken = <<>> /\ evicted = {}

BridgeNext ==
    \/ HandleMessage \/ FetchOk \/ FetchNotOk \/ FetchFail
    \/ SpeakTimerFire \/ RetryTimerFire

\* the bridge under every interleaving of messages, TTS replies and timers
BridgeSpecInit ==
    /\ BridgeInit /\ RelayIdle /\ RecvIdle /\ RestIdle /\ EmoIdle
    /\ MarkerIdle /\ GenIdle /\ StreamIdle
BridgeSpec == BridgeSpecInit /\ [][BridgeNext]_vars

\* a message arrives at enqueue, and the 10 most recent entries of a queue
EnqueueStep == arrived' = arrived + 1
MostRecent10(q) == {q[i] : i \in {j \in 1..Len(q) : j > Len(q) - 10}}

\* C15: the queue never holds more than 20 entries; a message that arrives
\* while it holds 20 evicts all but the 10 most recent entries, one that
\* arrives while it holds fewer evicts nothing, and the arriving message is
\* then queued or handed to speak, never dropped.
C15_QueueCapped ==
    /\ [](Len(queue) <= 20)
    /\ [][EnqueueStep =>
            /\ evicted' \ evicted =
                 IF Len(queue) >= 20
                 THEN Elements(queue) \ MostRecent10(queue)
                 ELSE {}
            /\ arrived' \notin evicted'
            /\ \/ queue' # <<>> /\ queue'[Len(queue')] = arrived'
               \/ /\ spoken' = Append(spoken, arrived')
                  /\ queue = <<>> /\ queue' = <<>>
            /\ Elements(queue') \cup Elements(spoken') \cup evicted'
                 = 1..arrived']_vars

\* the 22nd message has arrived while the first was being spoken and the
\* queue held the 20 others: the 10 oldest of them are gone and the new one
\* is the last of 11
C15_Witness ==
    /\ arrived = 22 /\ Len(queue) = 11 /\ queue[11] = 22
    /\ evicted = 2..11 /\ spoken = <<1>> /\ speaking

----------------------------------------------------------------------------
(* The relay server: the WebSocket connection handler and the demo loop.   *)
(* A message is the text on the wire: whether it is valid JSON, how it is  *)
(* written, and the value it stands for.  The GET /api/health handler      *)
(* reads the state and changes nothing; it is left out.                    *)

Conns == 1..MaxConns

\* a JSON value: null, or an object with the properties the server reads;
\* role "" is a role that is absent (or falsy)
JVal(kind, role, hasT, t, pts) ==
    [kind |-> kind, role |-> role, hasT |-> hasT, t |-> t, pts |-> pts]
JNull == JVal("null", "", FALSE, 0, "absent")
RoleMsg(r) == JVal("object", r, FALSE, 0, "absent")
FrameVal(t) == JVal("object", "", TRUE, t, "object")

\* the text of a value, written compactly ("plain") or with other spacing
\* and number forms ("spaced"); and a text that is not JSON, with the value
\* a lenient reader would take it for
Text(fmt, val) == [valid |-> TRUE, fmt |-> fmt, val |-> val]
BadText(val) == [valid |-> FALSE, fmt |-> "plain", val |-> val]
NoData == BadText(JNull)

\* a reader that takes every text for JSON
ParseLenient(data) == [threw |-> FALSE, msg |-> data.val]

\* try { msg = JSON.parse(data) } catch { return }
Parse(data) ==
    IF data.valid THEN [threw |-> FALSE, msg |-> data.val]
    ELSE [threw |-> TRUE, msg |-> JNull]

\* JSON.stringify(value): the compact text
Stringify(val) == Text("plain", val)

\* relaying the parsed message written out again
RelayTextRewritten(data, msg) == Stringify(msg)

\* viewer.send(data.toString()): the text as it was received
RelayText(data, msg) == data

\* a late joiner that is sent nothing
JoinTextsNone(latest) == <<>>

\* if (latestFrame) ws.send(JSON.stringify(latestFrame))
JoinTexts(latest) ==
    IF latest # NoFrame THEN <<Stringify(latest)>> ELSE <<>>

\* for (const viewer of viewers)
\*     if (viewer.readyState === WebSocket.OPEN) viewer.send(text)
Broadcast(text) ==
    [ v \in Conns |->
        IF v \in viewers /\ connState[v] = "OPEN"
        THEN Append(sent[v], text) ELSE sent[v] ]

\* a frame message: a JSON object with t and with pts
IsFrame(data) ==
    /\ data.valid /\ data.val.kind = "object"
    /\ data.val.hasT /\ data.val.pts = "object"

\* a role message that is obeyed whatever role the connection has
AssignsRoleAgain(msg, role) == msg.role # ""

\* if (msg.role && !role): the message names a role and the connection has
\* none yet
AssignsRole(msg, role) == msg.role # "" /\ role = ""

\* wss.on('connection'): a new socket, its role null
Connect ==
    /\ ~crashed
    /\ \E c \in Conns :
         /\ connState[c] = "none"
         /\ \A b \in Conns : b < c => connState[b] # "none"
         /\ connState' = [connState EXCEPT ![c] = "OPEN"]
    /\ UNCHANGED <<connRole, producers, viewers, latestFrame, demoInterval,
                   crashed, sent, relayIn, accepted>>
    /\ UNCHANGED <<lipVars, restVars, emoVars, bridgeVars, recvVars>>

\* ws.on('message') of connection c
OnMessage(c, data) ==
    LET parsed == Parse(data)
        msg == parsed.msg
    IN
    /\ ~crashed /\ connState[c] = "OPEN"
    /\ relayIn.n < MaxRelayIn
    /\ relayIn' = [n |-> relayIn.n + 1, conn |-> c, data |-> data]
    /\ accepted' = IF connRole[c] = "producer" /\ IsFrame(data)
                   THEN <<data>> ELSE accepted
    /\ IF parsed.threw
       THEN UNCHANGED <<connRole, producers, viewers, latestFrame, crashed,
                        sent>>
       ELSE IF msg.kind = "null"
       THEN \* msg.role of null throws a TypeError that nothing catches
            /\ crashed' = TRUE
            /\ UNCHANGED <<connRole, producers, viewers, latestFrame, sent>>
       ELSE IF AssignsRole(msg, connRole[c])
       THEN /\ connRole' = [connRole EXCEPT ![c] = msg.role]
            /\ producers' = IF msg.role = "producer"
                            THEN producers \cup {c} ELSE producers
            /\ viewers' = IF msg.role = "viewer"
                          THEN viewers \cup {c} ELSE viewers
            /\ sent' = IF msg.role = "viewer"
                       THEN [sent EXCEPT
                               ![c] = sent[c] \o JoinTexts(latestFrame)]
                       ELSE sent
            /\ UNCHANGED <<latestFrame, crashed>>
       ELSE IF connRole[c] = "producer" /\ msg.hasT
               /\ msg.pts \notin {"absent", "null"}
       THEN /\ latestFrame' = msg
            /\ sent' = Broadcast(RelayText(data, msg))
            /\ UNCHANGED <<connRole, producers, viewers, crashed>>
       ELSE UNCHANGED <<connRole, producers, viewers, latestFrame, crashed,
                        sent>>
    /\ UNCHANGED <<connState, demoInterval>>
    /\ UNCHANGED <<lipVars, restVars, emoVars, bridgeVars, recvVars>>

\* the texts that arrive: not JSON, null, a number, role messages, a frame in
\* the compact spelling, a frame in another spelling that also names a role,
\* and an object with t whose pts is null
RelayData ==
    { BadText(RoleMsg("viewer")), Text("plain", JNull),
      Text("plain", JVal("number", "", FALSE, 0, "absent")),
      Text("plain", RoleMsg("producer")), Text("plain", RoleMsg("viewer")),
      Text("plain", FrameVal(1)),
      Text("spaced", JVal("object", "producer", TRUE, 2, "object")),
      Text("plain", JVal("object", "", TRUE, 3, "null")) }

Message == \E c \in Conns : \E data \in RelayData : OnMessage(c, data)

\* the peer starts closing connection c: readyState leaves OPEN before the
\* close event is emitted
BeginClose ==
    /\ ~crashed
    /\ \E c \in Conns :
         /\ connState[c] = "OPEN"
         /\ connState' = [connState EXCEPT ![c] = "CLOSING"]
    /\ UNCHANGED <<connRole, producers, viewers, latestFrame, demoInterval,
                   crashed, sent, relayIn, accepted>>
    /\ UNCHANGED <<lipVars, restVars, emoVars, bridgeVars, recvVars>>

\* ws.on('close') of connection c
OnClose ==
    /\ ~crashed
    /\ \E c \in Conns :
         /\ connState[c] \in {"OPEN", "CLOSING"}
         /\ connState' = [connState EXCEPT ![c] = "CLOSED"]
         /\ producers' = producers \ {c}
         /\ viewers' = viewers \ {c}
    /\ UNCHANGED <<connRole, latestFrame, demoInterval, crashed, sent,
                   relayIn, accepted>>
    /\ UNCHANGED <<lipVars, restVars, emoVars, bridgeVars, recvVars>>

\* POST /api/demo: stop the demo if it runs, start it otherwise
DemoToggle ==
    /\ ~crashed
    /\ demoInterval' = ~demoInterval
    /\ UNCHANGED <<connState, connRole, producers, viewers, latestFrame,
                   crashed, sent, relayIn, accepted>>
    /\ UNCHANGED <<lipVars, restVars, emoVars, bridgeVars, recvVars>>

\* the frame the demo interval builds
DemoFrame == FrameVal(5)

\* the setInterval callback of the demo
DemoTick ==
    /\ ~crashed /\ demoInterval
    /\ relayIn.n < MaxRelayIn
    /\ latestFrame' = DemoFrame
    /\ sent' = Broadcast(Stringify(DemoFrame))
    /\ relayIn' = [n |-> relayIn.n + 1, conn |-> 0,
                   data |-> Stringify(DemoFrame)]
    /\ accepted' = <<Stringify(DemoFrame)>>
    /\ UNCHANGED <<connState, connRole, producers, viewers, demoInterval,
                   crashed>>
    /\ UNCHANGED <<lipVars, restVars, emoVars, bridgeVars, recvVars>>

RelayInit ==
    /\ connState = [c \in Conns |-> "none"]
    /\ connRole = [c \in Conns |-> ""]
    /\ producers = {} /\ viewers = {}
    /\ latestFrame = NoFrame /\ demoInterval = FALSE /\ crashed = FALSE
    /\ sent = [c \in Conns |-> <<>>]
    /\ relayIn = [n |-> 0, conn |-> 0, data |-> NoData]
    /\ accepted = <<>>

RelayNext ==
    \/ Connect \/ Message \/ BeginClose \/ OnClose \/ DemoToggle \/ DemoTick

\* the relay server under every interleaving of connections, messages,
\* closes and demo ticks
RelaySpecInit ==
    /\ RelayInit /\ BridgeIdle /\ RecvIdle /\ RestIdle /\ EmoIdle
    /\ MarkerIdle /\ GenIdle /\ StreamIdle
RelaySpec == RelaySpecInit /\ [][RelayNext]_vars

\* a step that handles a message of connection c; the connections that are
\* registered as viewer and open
HandledFrom(c) == relayIn'.n = relayIn.n + 1 /\ relayIn'.conn = c
OpenViewers == {v \in Conns : connRole[v] = "viewer" /\ connState[v] = "OPEN"}

\* C16: when a frame arrives from a connection registered as producer, its
\* text is appended as received to what every open viewer has been sent, and
\* nothing else is sent; so each viewer gets it once, in the order of arrival.
C16_RelaysVerbatim ==
    [][\A c \in Conns :
         (HandledFrom(c) /\ connRole[c] = "producer" /\ IsFrame(relayIn'.data))
           => \A v \in Conns :
                sent'[v] = IF v \in OpenViewers
                           THEN Append(sent[v], relayIn'.data)
                           ELSE sent[v]]_vars

\* a producer's frame in the other spelling has just reached two open viewers
\* as written, and the producer itself was sent nothing
C16_Witness ==
    /\ relayIn.conn \in Conns /\ connRole[relayIn.conn] = "producer"
    /\ IsFrame(relayIn.data) /\ relayIn.data.fmt = "spaced"
    /\ sent[relayIn.conn] = <<>>
    /\ Cardinality({v \in Conns : /\ connRole[v] = "viewer"
                                  /\ sent[v] = <<relayIn.data>>}) = 2

\* a message by which connection c registers as viewer
RegistersViewer(c) ==
    /\ HandledFrom(c) /\ connRole[c] = ""
    /\ relayIn'.data.valid /\ relayIn'.data.val.kind = "object"
    /\ relayIn'.data.val.role = "viewer"

\* C17: a connection that registers as viewer is sent one text, the most
\* recently accepted frame, when a frame has been accepted, and nothing when
\* none has; no other connection is sent anything.
C17_LateJoinerGetsLatest ==
    [][\A c \in Conns :
         RegistersViewer(c) =>
           /\ \A v \in Conns \ {c} : sent'[v] = sent[v]
           /\ IF accepted = <<>>
              THEN sent'[c] = sent[c]
              ELSE /\ Len(sent'[c]) = Len(sent[c]) + 1
                   /\ SubSeq(sent'[c], 1, Len(sent[c])) = sent[c]
                   /\ sent'[c][Len(sent'[c])].valid
                   /\ sent'[c][Len(sent'[c])].val = accepted[1].val]_vars

\* a viewer has just registered after the only producer closed, and was sent
\* the producer's last frame
C17_Witness ==
    /\ relayIn.conn \in Conns /\ connRole[relayIn.conn] = "viewer"
    /\ relayIn.data.val.role = "viewer"
    /\ producers = {}
    /\ \E p \in Conns : connRole[p] = "producer" /\ connState[p] = "CLOSED"
    /\ accepted # <<>> /\ accepted[1].fmt = "spaced"
    /\ sent[relayIn.conn] = <<Stringify(accepted[1].val)>>

\* C18: a message that is not valid JSON changes nothing: no role, no set, no
\* cached frame, nothing sent, no error.
C18_InvalidJsonDropped ==
    [][\A c \in Conns :
         (HandledFrom(c) /\ ~relayIn'.data.valid) =>
             /\ UNCHANGED <<connState, connRole, producers, viewers,
                            latestFrame, demoInterval, sent, accepted>>
             /\ ~crashed']_vars

\* a text that is not JSON has just come from a connection without a role
\* while a viewer was registered and a frame cached
C18_Witness ==
    /\ relayIn.conn \in Conns /\ ~relayIn.data.valid
    /\ connRole[relayIn.conn] = "" /\ connState[relayIn.conn] = "OPEN"
    /\ viewers # {} /\ latestFrame # NoFrame /\ ~crashed

----------------------------------------------------------------------------
(* receiver.js: the Receiver of the browser page.  Frame callbacks are     *)
(* taken not to throw.                                                     *)

\* the rest frame; its pts differ from those of every frame that arrives
NEUTRAL_FRAME == FrameVal(0)

\* doubling without the cap
NextDelayUncapped(delay) == delay * 2

\* Math.min(this._reconnectDelay * 2, 10000)
NextDelay(delay) == IF delay * 2 < 10000 THEN delay * 2 ELSE 10000

\* a message is stored as soon as it has t
HasT(msg) == msg.hasT

\* msg.t !== undefined && msg.pts
IsFrameMsg(msg) == msg.hasT /\ msg.pts \notin {"absent", "null"}

\* a connect(url) whose catch block schedules nothing
ConnectBodyGivesUp(delay) ==
    \/ /\ rWs' = "CONNECTING" /\ rStatus' = "connecting"
       /\ rTimer' = -1 /\ rFails' = rFails
    \/ /\ rFails < MaxFails
       /\ rWs' = rWs /\ rStatus' = "disconnected"
       /\ rTimer' = -1 /\ rFails' = rFails + 1

\* connect(url) with this._reconnectDelay at delay: the socket is created, or
\* the constructor throws and the reconnect is scheduled at once
ConnectBody(delay) ==
    \/ /\ rWs' = "CONNECTING" /\ rStatus' = "connecting"
       /\ rTimer' = -1 /\ rFails' = rFails
    \/ /\ rFails < MaxFails
       /\ rWs' = rWs /\ rStatus' = "disconnected"
       /\ rTimer' = delay /\ rFails' = rFails + 1

\* the page calls receiver.connect(wsUrl)
RecvConnect ==
    /\ rWs = "null" /\ rTimer = -1 /\ rStatus = "disconnected"
    /\ ConnectBody(rReconnectDelay)
    /\ UNCHANGED <<rFrame, rReconnectDelay, rCalls, rLastValid, rDropped>>
    /\ rStopped' = FALSE
    /\ UNCHANGED <<lipVars, restVars, emoVars, bridgeVars, relayVars>>

\* this._ws.onopen
RecvOnOpen ==
    /\ rWs = "CONNECTING"
    /\ rWs' = "OPEN" /\ rStatus' = "connected"
    /\ rReconnectDelay' = 1000
    /\ rFails' = 0
    /\ UNCHANGED <<rFrame, rTimer, rCalls, rLastValid, rDropped, rStopped>>
    /\ UNCHANGED <<lipVars, restVars, emoVars, bridgeVars, relayVars>>

\* this._ws.onmessage, the whole handler inside its try block
RecvOnMessage(data) ==
    LET parsed == Parse(data)
        msg == parsed.msg
        threw == parsed.threw \/ msg.kind = "null"
    IN
    /\ rWs = "OPEN"
    /\ IF ~threw /\ IsFrameMsg(msg)
       THEN /\ Len(rCalls) < MaxRecvMsgs
            /\ rFrame' = msg
            /\ rCalls' = Append(rCalls, msg)
       ELSE UNCHANGED <<rFrame, rCalls>>
    /\ IF IsFrame(data)
       THEN rLastValid' = data.val /\ rDropped' = rDropped
       ELSE /\ rDropped < MaxRecvMsgs
            /\ rLastValid' = rLastValid /\ rDropped' = rDropped + 1
    /\ UNCHANGED <<rWs, rStatus, rReconnectDelay, rTimer, rFails, rStopped>>
    /\ UNCHANGED <<lipVars, restVars, emoVars, bridgeVars, relayVars>>

\* the texts that arrive: not JSON, null, an object that is not a frame, two
\* frames, an object with t whose pts is null, and one with pts and no t
RecvData ==
    { BadText(FrameVal(1)), Text("plain", JNull),
      Text("plain", RoleMsg("viewer")),
      Text("plain", FrameVal(1)), Text("spaced", FrameVal(2)),
      Text("plain", JVal("object", "", TRUE, 3, "null")),
      Text("plain", JVal("object", "", FALSE, 0, "object")) }

RecvMessage == \E data \in RecvData : RecvOnMessage(data)

\* disconnect(): this._ws.close(); the socket's handlers stay in place
RecvDisconnect ==
    /\ rWs \in {"CONNECTING", "OPEN"}
    /\ rWs' = "CLOSING"
    /\ UNCHANGED <<rStatus, rFrame, rReconnectDelay, rTimer, rCalls, rFails,
                   rLastValid, rDropped>>
    /\ rStopped' = TRUE
    /\ UNCHANGED <<lipVars, restVars, emoVars, bridgeVars, relayVars>>

\* this._ws.onclose: _scheduleReconnect sets the timer with the current delay
RecvOnClose ==
    /\ rWs \in {"CONNECTING", "OPEN", "CLOSING"}
    /\ rFails < MaxFails
    /\ rWs' = "CLOSED" /\ rStatus' = "disconnected"
    /\ rTimer' = rReconnectDelay
    /\ rFails' = rFails + 1
    /\ UNCHANGED <<rFrame, rReconnectDelay, rCalls, rLastValid, rDropped, rStopped>>
    /\ UNCHANGED <<lipVars, restVars, emoVars, bridgeVars, relayVars>>

\* the reconnect timer fires: the delay is doubled, then connect(url)
RecvTimerFire ==
    /\ rTimer # -1
    /\ rReconnectDelay' = NextDelay(rReconnectDelay)
    /\ ConnectBody(rReconnectDelay')
    /\ UNCHANGED <<rFrame, rCalls, rLastValid, rDropped, rStopped>>
    /\ UNCHANGED <<lipVars, restVars, emoVars, bridgeVars, relayVars>>

\* new Receiver()
RecvInit ==
    /\ rWs = "null" /\ rStatus = "disconnected" /\ rFrame = NEUTRAL_FRAME
    /\ rReconnectDelay = 1000 /\ rTimer = -1 /\ rCalls = <<>> /\ rFails = 0
    /\ rLastValid = NEUTRAL_FRAME /\ rDropped = 0 /\ rStopped = FALSE

RecvNext ==
    \/ RecvConnect \/ RecvOnOpen \/ RecvMessage \/ RecvDisconnect
    \/ RecvOnClose \/ RecvTimerFire

\* a Receiver under every interleaving of socket events, messages and timers
RecvSpecInit ==
    /\ RecvInit /\ BridgeIdle /\ RelayIdle /\ RestIdle /\ EmoIdle
    /\ MarkerIdle /\ GenIdle /\ StreamIdle
RecvSpec == RecvSpecInit /\ [][RecvNext]_vars

\* C19: latest() (this._frame) always has a defined t and a pts value: it is
\* the rest frame until a frame arrives and afterwards the last message that
\* had both t and pts; only such messages reach the frame callbacks.
C19_LatestIsValidFrame ==
    /\ rFrame.hasT /\ rFrame.pts = "object"
    /\ rFrame = rLastValid
    /\ \A i \in 1..Len(rCalls) : rCalls[i].hasT /\ rCalls[i].pts = "object"
    /\ rCalls = <<>> => rFrame = NEUTRAL_FRAME
    /\ rCalls # <<>> => rFrame = rCalls[Len(rCalls)]

\* two frames and some messages that are not frames have arrived, and the
\* socket has since closed and is waiting to reconnect
C19_Witness ==
    /\ rCalls = <<FrameVal(1), FrameVal(2)>> /\ rFrame = FrameVal(2)
    /\ rDropped >= 2 /\ rStatus = "disconnected" /\ rTimer # -1

\* the k-th wait in a row, ms
ExpectedWait(k) == IF 1000 * 2^(k - 1) < 10000 THEN 1000 * 2^(k - 1) ELSE 10000

\* C20: the pending reconnect wait is 1 s for the first attempt after an
\* open (or after construction) and doubles with each further attempt that
\* fails, up to 10 s and never more.
C20_ExponentialBackoff ==
    rTimer # -1 =>
        /\ rFails >= 1
        /\ rTimer = ExpectedWait(rFails)
        /\ rTimer <= 10000

\* after a frame was received on an open socket, six attempts in a row have
\* failed and the wait has reached the cap for the second time
C20_Witness ==
    /\ rCalls # <<>> /\ rFails = 6 /\ rTimer = 10000

\* connect(url) has been called; a connection loss or failed attempt
RecvStarted == rWs # "null" \/ rFails > 0
LossStep == rFails' = rFails + 1

\* C21: once connect(url) has been called the Receiver is connected,
\* connecting or has a reconnect timer pending; every loss or failed attempt
\* sets the one timer, with the current delay, a timer is set by nothing
\* else, and no socket is alive while the timer is pending.
C21_AlwaysReconnects ==
    /\ [](RecvStarted =>
            \/ rStatus \in {"connected", "connecting"}
            \/ rTimer # -1)
    /\ [](rTimer # -1 => rWs \in {"null", "CLOSED"})
    /\ [][/\ LossStep => /\ rTimer' = rReconnectDelay'
                       /\ rStatus' = "disconnected"
                       /\ rWs' \in {"null", "CLOSED"}
          /\ rTimer' # rTimer => (LossStep \/ rTimer' = -1)]_vars

\* the constructor threw on the first attempt and the socket of the second
\* attempt closed: the Receiver is disconnected with a timer pending
C21_Witness ==
    /\ rWs = "CLOSED" /\ rStatus = "disconnected" /\ rCalls = <<>>
    /\ rFails = 2 /\ rTimer = 2000


----------------------------------------------------------------------------
(* The animation system's layer blender: push_expression, push_sentiment   *)
(* and step(dt) acting on the list of layers.  A layer is its name, weight *)
(* (in hundredths), decay rate and age; its parameter vector plays no part *)
(* in which layers exist and is left out.                                  *)

\* a weight of 1.0, and the weight below which a layer is dead
WeightScale == 100
WeightThreshold == 1

\* the name of the sentiment-derived layer
SENTIMENT == "__sentiment"

\* the expressions the face model knows; any other name is ignored
Expressions == {"happy", "surprised"}
ExpressionNames == Expressions \cup {"bogus"}

Intensities == {50, 100}

\* exp(-decay_rate * dt) for the decay rates pushed, in hundredths, dt being
\* one frame
DecayRates == {1, 2}
DecayFactor(rate) == IF rate = 1 THEN 50 ELSE 25

NewLayer(name, weight, rate) ==
    [name |-> name, weight |-> weight, decay |-> rate, age |-> 0]

\* a push that stacks the new layer on the ones of the same name
PushLayerStacking(ls, layer) == Append(ls, layer)

\* the layers after a push: an existing layer of that name is replaced
PushLayer(ls, layer) ==
    Append(SelectSeq(ls, LAMBDA l : l.name # layer.name), layer)

\* a layer one step(dt) later
Advance(l) ==
    [l EXCEPT !.weight = (l.weight * DecayFactor(l.decay)) \div WeightScale,
              !.age = l.age + 1]

RECURSIVE AdvanceAll(_)
AdvanceAll(ls) ==
    IF ls = <<>> THEN <<>>
    ELSE <<Advance(Head(ls))>> \o AdvanceAll(Tail(ls))

\* the layers that are not dead
Prune(ls) == SelectSeq(ls, LAMBDA l : l.weight >= WeightThreshold)

\* the positions of the layers with that name
LayersNamed(ls, name) == {k \in 1..Len(ls) : ls[k].name = name}

\* push_expression(expression, intensity, decay_rate)
PushExpression(name, intensity, rate) ==
    /\ layers' = IF name \in Expressions
                 THEN PushLayer(layers, NewLayer(name, intensity, rate))
                 ELSE layers
    /\ aLast' = [op |-> "push_expression", name |-> name,
                 weight |-> intensity, decay |-> rate,
                 replaced |-> LayersNamed(layers, name) # {}]
    /\ UNCHANGED <<lipVars, blendVars, srvVars, moreVars, emoVars, netVars>>

\* push_sentiment(valence, arousal, decay_rate): the layer's weight is the
\* strength of the sentiment
PushSentiment(strength, rate) ==
    /\ layers' = PushLayer(layers, NewLayer(SENTIMENT, strength, rate))
    /\ aLast' = [op |-> "push_sentiment", name |-> SENTIMENT,
                 weight |-> strength, decay |-> rate,
                 replaced |-> LayersNamed(layers, SENTIMENT) # {}]
    /\ UNCHANGED <<lipVars, blendVars, srvVars, moreVars, emoVars, netVars>>

\* step(dt): every layer ages and decays, the dead ones are removed
AnimStep ==
    /\ layers # <<>>
    /\ layers' = Prune(AdvanceAll(layers))
    /\ aLast' = [op |-> "step"]
    /\ UNCHANGED <<lipVars, blendVars, srvVars, moreVars, emoVars, netVars>>

PushExpressionCall ==
    \E name \in ExpressionNames, i \in Intensities, rate \in DecayRates :
        PushExpression(name, i, rate)

PushSentimentCall ==
    \E i \in Intensities, rate \in DecayRates : PushSentiment(i, rate)

AnimInit == layers = <<>> /\ aLast = [op |-> "new"]

AnimNext == PushExpressionCall \/ PushSentimentCall \/ AnimStep

\* the blender under every interleaving of pushes and steps
AnimSpecInit ==
    /\ AnimInit /\ BlendIdle /\ SrvIdle /\ MoreIdle /\ EmoIdle /\ NetIdle
    /\ MarkerIdle /\ GenIdle /\ StreamIdle
AnimSpec == AnimSpecInit /\ [][AnimNext]_vars

Without(ls, name) == SelectSeq(ls, LAMBDA l : l.name # name)

IsPush(call) == call.op \in {"push_expression", "push_sentiment"}

\* C22: a push with the name of an existing layer replaces that layer: after
\* it there is one layer of that name, the pushed one, and the other layers
\* are as they were; no two active layers ever have the same name.
C22_OneLayerPerName ==
    /\ [](\A name \in Expressions \cup {SENTIMENT} :
            Cardinality(LayersNamed(layers, name)) <= 1)
    /\ [][(IsPush(aLast') /\ aLast'.name \in Expressions \cup {SENTIMENT}) =>
            /\ \E k \in 1..Len(layers') :
                 /\ LayersNamed(layers', aLast'.name) = {k}
                 /\ layers'[k] =
                      NewLayer(aLast'.name, aLast'.weight, aLast'.decay)
            /\ Without(layers', aLast'.name) = Without(layers, aLast'.name)
          ]_vars

\* happy was pushed while a decayed happy layer and a sentiment layer were
\* active: the new happy layer took the old one's place
C22_Witness ==
    /\ aLast = [op |-> "push_expression", name |-> "happy",
                weight |-> 100, decay |-> 2, replaced |-> TRUE]
    /\ Len(layers) = 2
    /\ layers[1].name = SENTIMENT /\ layers[1].age = 1
    /\ layers[2] = NewLayer("happy", 100, 2)


----------------------------------------------------------------------------
(* streamLipSync: frames against the clock.                                *)

\* time to go until the frame the next tick waits for, in 1/Sub ms
Remaining == sFrames[index' + 1] - Sub * (now - startTime')

\* C23: no frame is handed to onFrame before its time t has elapsed since
\* the start of the stream, and a tick that leaves frames undelivered sets
\* the next timer to the remaining time of the first of them, in whole
\* milliseconds and never less than 1 ms.
C23_NeverEarly ==
    /\ [](\A k \in 1..Len(delivered) :
            sFrames[delivered[k]] <= deliveredAt[k])
    /\ [][(timer' # -1 /\ timer' # timer) =>
            LET d == timer' - now IN
            /\ index' < Len(sFrames)
            /\ Remaining > 0
            /\ d >= 1
            /\ Remaining >= Sub =>
                  (Sub * d <= Remaining /\ Remaining < Sub * (d + 1))
            /\ Remaining < Sub => d = 1]_vars

\* the second frame, due at 1.5 ms, was not handed over by the timer that
\* fired at 1 ms but by the next, at 2 ms
C23_Witness ==
    /\ sFrames = <<0, 3>> /\ delivered = <<1, 2>> /\ deliveredAt = <<0, 4>>
    /\ doneCalls = 1


----------------------------------------------------------------------------
(* generateLipSync: nested scopes.                                         *)

\* marked-up texts with up to three known scopes nested in either order, an
\* unknown pair, a closing marker and a pause
NestPieces ==
    { StartToken(EMPHASIS), StartToken(EXCITED), StartToken(QUESTION),
      EndToken(EXCITED), StartToken(UNKNOWN_X) \o EndToken(UNKNOWN_X),
      StartToken(PAUSE), <<"H","i">> }

NestTexts == Concats(NestPieces, MaxPieces)

\* frame rates at which a pause is, and is not, a whole number of frames
NestFps == {12, 25}

NestInit ==
    /\ gText \in NestTexts /\ gFps \in NestFps /\ gSpeed \in SpeedSet
    /\ gPc = "call"
    /\ segments = <<>> /\ segIdx = 0 /\ allFrames = <<>> /\ timeOffset = Zero
    /\ activeEffects = <<>> /\ segEffects = <<>> /\ gResult = NoResult

\* generateLipSync on texts with nested scopes
NestSpecInit == NestInit /\ MarkerIdle /\ StreamIdle /\ FaceIdle
NestSpec == NestSpecInit /\ [][GenNext]_vars

\* the scoped markers of the effect table, in a fixed order
KnownScopes == <<EMPHASIS, WHISPER, EXCITED, QUESTION>>

\* how many of the open scopes have that name
Opened(open, name) == Cardinality({k \in 1..Len(open) : open[k] = name})

RECURSIVE RPow(_, _)
RPow(r, c) == IF c = 0 THEN One ELSE RMul(r, RPow(r, c - 1))

\* the product, over the first k known scopes, of the factor each open scope
\* of that name contributes: factor(name) is Undefined when it has none
RECURSIVE ProductOver(_, _, _)
ProductOver(open, factor(_), k) ==
    IF k = 0 THEN One
    ELSE LET name == KnownScopes[k]
             f == factor(name)
         IN  RMul(ProductOver(open, factor, k - 1),
                  IF Truthy(f) THEN RPow(f, Opened(open, name)) ELSE One)

\* the largest browRaise among the open scopes, 0 when none has one
RECURSIVE MaxBrow(_, _)
MaxBrow(open, k) ==
    IF k = 0 THEN Zero
    ELSE LET name == KnownScopes[k]
             b == MARKER_EFFECTS[name].browRaise
         IN  IF Truthy(b) /\ Opened(open, name) > 0
             THEN RMax(MaxBrow(open, k - 1), b) ELSE MaxBrow(open, k - 1)

SpeedOf(name) == MARKER_EFFECTS[name].speedMultiplier
MouthOf(name) == MARKER_EFFECTS[name].mouthScale

\* speed, mouth scale and brow raise composed from the open scopes, whatever
\* their order
Composed(open, speed) ==
    [segSpeed   |-> RMul(speed, ProductOver(open, SpeedOf, Len(KnownScopes))),
     mouthScale |-> ProductOver(open, MouthOf, Len(KnownScopes)),
     browRaise  |-> MaxBrow(open, Len(KnownScopes))]

\* the known scopes open at the segment being processed
OpenKnown ==
    SelectSeq(OpenScopes(Before).open, LAMBDA n : n \in DOMAIN MARKER_EFFECTS)

\* C24: a text segment inside open known scopes is generated with speed =
\* base speed times the product of the scopes' speedMultipliers, mouth scale
\* = the product of their mouthScales and brow raise = the largest of their
\* browRaise values (0 when none has one), whatever the nesting order.
C24_NestedScopesCompose ==
    (AtText /\ WellNested(segments)) =>
        ApplyEffects(activeEffects, gSpeed) = Composed(OpenKnown, gSpeed)

\* the same for texts whose scoped markers are all in the effect table
ComposeWhenAllKnown ==
    (AtText /\ WellNested(segments) /\ KnownOnly(Before) = Before) =>
        ApplyEffects(activeEffects, gSpeed) = Composed(OpenKnown, gSpeed)


----------------------------------------------------------------------------
(* generateLipSync: pauses.                                                *)

AtPause == InLoop /\ Seg.type = "marker" /\ Seg.name \in {PAUSE, LONG_PAUSE}

\* the frames added by the step
Added == SubSeq(allFrames', Len(allFrames) + 1, Len(allFrames'))

Shifted(frames, offset) ==
    [i \in 1..Len(frames) |-> [frames[i] EXCEPT !.t = RAdd(@, offset)]]

\* C25: a pause or long-pause marker adds round(pauseDuration x fps) silence
\* frames (mouth_open, mouth_wide and jaw_open 0), the first at the current
\* time offset, advances the offset by exactly pauseDuration and touches
\* neither the scope stack nor any text; a text segment's frames are those
\* it has at offset 0, shifted by the current offset.
C25_PauseIsSilence ==
    /\ [][AtPause =>
            LET d == MARKER_EFFECTS[Seg.name].pauseDuration
                n == Round(RMul(d, Rat(gFps, 1)))
            IN
            /\ Len(allFrames') = Len(allFrames) + n
            /\ SubSeq(allFrames', 1, Len(allFrames)) = allFrames
            /\ \A k \in 1..n :
                /\ Added[k].pts.mouth_open = Zero
                /\ Added[k].pts.mouth_wide = Zero
                /\ Added[k].pts.jaw_open = Zero
                /\ Added[k].t = RAdd(timeOffset, Rat(k - 1, gFps))
            /\ timeOffset' = RAdd(timeOffset, d)
            /\ activeEffects' = activeEffects
            /\ segEffects' = segEffects]_vars
    /\ [][AtText =>
            /\ SubSeq(allFrames', 1, Len(allFrames)) = allFrames
            /\ Added = Shifted(TextFrames(Seg.content, activeEffects, gSpeed,
                                          gFps, Zero), timeOffset)]_vars

\* frames were returned for text, a pause of 4.8 frames, and text again
C25_Witness ==
    /\ Returned /\ gFps = 12
    /\ \E k \in 2..(Len(segments) - 1) :
        /\ segments[k - 1].type = "text"
        /\ segments[k].type = "marker" /\ segments[k].name = PAUSE
        /\ segments[k + 1].type = "text"
    /\ Len(segEffects) = 2


----------------------------------------------------------------------------
(* generateLipSync: the phoneme count.                                     *)

\* the phonemes textToPhonemes derives from the text segments of segs
RECURSIVE PhonemesOf(_)
PhonemesOf(segs) ==
    IF segs = <<>> THEN <<>>
    ELSE (IF Head(segs).type = "text"
          THEN textToPhonemes(Head(segs).content) ELSE <<>>)
         \o PhonemesOf(Tail(segs))

\* C26: the phonemeCount generateLipSync returns is the number of phonemes
\* textToPhonemes derives from the text's segments; for text without markers
\* it is the length of textToPhonemes(text), the list /api/analyze returns.
C26_PhonemeCountIsPhonemes ==
    Returned =>
        /\ gResult.phonemeCount = Len(PhonemesOf(segments))
        /\ ~ContainsMarker(gText) =>
              gResult.phonemeCount = Len(textToPhonemes(gText))

\* the count returned is the number of frames
PhonemeCountIsFrameCount ==
    Returned => gResult.phonemeCount = Len(allFrames)


----------------------------------------------------------------------------
(* tts/src/server.js: POST /api/speak and POST /api/demo.  A request body  *)
(* is the parsed JSON object; its text is a JavaScript value, a string     *)
(* being its length.  A handler runs to its end in one step; the frames of *)
(* the stream it starts follow one timer at a time.                        *)

MaxRequests == 3
MaxSrvFrames == 2
\* nested calls of app.handle the stack has room for
StackLimit == 3

SPEAK == "/api/speak"
DEMO  == "/api/demo"

\* text.length > 5000
MaxTextLength == 5000

JsUndefined == [type |-> "undefined", num |-> 0, length |-> 0]
JsNull      == [type |-> "object", num |-> 0, length |-> 0]
JsNumber(n) == [type |-> "number", num |-> n, length |-> 0]
JsString(n) == [type |-> "string", num |-> 0, length |-> n]
\* an array: an object that is truthy and has a length
JsArray(n)  == [type |-> "object", num |-> 1, length |-> n]

\* !!v
JsTruthy(v) ==
    CASE v.type = "undefined" -> FALSE
      [] v.type = "string"    -> v.length > 0
      [] OTHER                -> v.num # 0

\* 'Hello, I am a virtual agent. Nice to meet you.'
DemoPhrase == JsString(46)

Answer(status, kind, frames) ==
    [status |-> status, kind |-> kind, frames |-> frames]

\* the checks of the speak handler without the one on the length
SpeakHandlerNoLimit(text, frames) ==
    IF ~JsTruthy(text) \/ text.type # "string"
    THEN Answer(400, "text is required", 0)
    ELSE Answer(200, "speaking", frames)

\* app.post('/api/speak'): the answer, and the number of frames of the
\* stream it starts; frames is what generateLipSync returns for the text
SpeakHandler(text, frames) ==
    IF ~JsTruthy(text) \/ text.type # "string"
    THEN Answer(400, "text is required", 0)
    ELSE IF text.length > MaxTextLength
    THEN Answer(400, "text too long", 0)
    ELSE Answer(200, "speaking", frames)

\* req.body?.text || 'Hello, ...'
DemoText(text) == IF JsTruthy(text) THEN text ELSE DemoPhrase

\* app.handle(req, res): the request is routed by its url.  The demo handler
\* replaces req.body and calls app.handle with the request's url unchanged,
\* so the request is routed to the demo handler again, until the stack is
\* exhausted
RECURSIVE Handle(_, _, _, _)
Handle(url, text, frames, depth) ==
    IF depth > StackLimit THEN Answer(500, "RangeError", 0)
    ELSE IF url = SPEAK THEN SpeakHandler(text, frames)
    ELSE Handle(url, DemoText(text), frames, depth + 1)

\* what the client gets when the stack overflows inside nested handlers: the
\* error handler's answer, or none when that cannot run either
Outcomes(answer) ==
    IF answer.status = 500 THEN {answer, Answer(0, "no response", 0)}
    ELSE {answer}

\* a request is handled; the first tick of streamLipSync runs inside the
\* handler and broadcasts the frame at t = 0
Request(url, text, frames) ==
    /\ Len(srvLog) < MaxRequests
    /\ \E answer \in Outcomes(Handle(url, text, frames, 1)) :
        /\ srvLog' = Append(srvLog, [url |-> url, text |-> text,
                                     status |-> answer.status,
                                     kind |-> answer.kind])
        /\ srvSent' = Append(srvSent, IF answer.frames > 0 THEN 1 ELSE 0)
        /\ srvLeft' = Append(srvLeft, IF answer.frames > 0
                                      THEN answer.frames - 1 ELSE 0)
    /\ UNCHANGED <<lipVars, blendVars, animVars, moreVars, emoVars, netVars>>

\* the texts clients send: none, null, numbers, an array, and strings that
\* are empty, short, of the greatest length allowed, and one longer
SrvTexts ==
    { JsUndefined, JsNull, JsNumber(0), JsNumber(7), JsArray(2),
      JsString(0), JsString(5), JsString(MaxTextLength),
      JsString(MaxTextLength + 1) }

SpeakRequest ==
    \E text \in SrvTexts, frames \in 0..MaxSrvFrames :
        Request(SPEAK, text, frames)

DemoRequest ==
    \E text \in {JsUndefined, JsString(5)}, frames \in 1..MaxSrvFrames :
        Request(DEMO, text, frames)

\* the timer of a stream fires: tick broadcasts the next frame
SrvStreamTick ==
    \E i \in 1..Len(srvLeft) :
        /\ srvLeft[i] > 0
        /\ srvLeft' = [srvLeft EXCEPT ![i] = @ - 1]
        /\ srvSent' = [srvSent EXCEPT ![i] = @ + 1]
        /\ UNCHANGED srvLog
        /\ UNCHANGED <<lipVars, blendVars, animVars, moreVars, emoVars, netVars>>

SrvInit == srvLog = <<>> /\ srvLeft = <<>> /\ srvSent = <<>>

SrvNext == SpeakRequest \/ DemoRequest \/ SrvStreamTick

\* the TTS service under every sequence of requests and stream timers
SrvSpecInit ==
    /\ SrvInit /\ BlendIdle /\ AnimIdle /\ MoreIdle /\ EmoIdle /\ NetIdle
    /\ MarkerIdle /\ GenIdle /\ StreamIdle
SrvSpec == SrvSpecInit /\ [][SrvNext]_vars

\* missing, empty, not a string, or longer than 5000 characters
InvalidText(text) ==
    \/ text.type # "string"
    \/ text.length = 0
    \/ text.length > 5000

\* C27: POST /api/speak with a text that is missing, empty, not a string or
\* longer than 5000 characters is answered with status 400 and no frame is
\* ever broadcast for that request.
C27_InvalidTextRejected ==
    \A i \in 1..Len(srvLog) :
        (srvLog[i].url = SPEAK /\ InvalidText(srvLog[i].text)) =>
            /\ srvLog[i].status = 400
            /\ srvSent[i] = 0 /\ srvLeft[i] = 0

\* a text of 5001 characters was refused after one of 5000 was spoken
C27_Witness ==
    /\ Len(srvLog) = 2
    /\ srvLog[1].url = SPEAK /\ srvLog[1].text = JsString(5000)
    /\ srvLog[1].status = 200 /\ srvSent[1] = 2 /\ srvLeft[1] = 0
    /\ srvLog[2].url = SPEAK /\ srvLog[2].text = JsString(5001)
    /\ srvLog[2].status = 400 /\ srvSent[2] = 0


\* C28: a POST /api/demo request is forwarded to the speak handler: it gets
\* the 'speaking' answer and the frames of the demo phrase start to be
\* broadcast.
C28_DemoIsSpoken ==
    \A i \in 1..Len(srvLog) :
        srvLog[i].url = DEMO =>
            /\ srvLog[i].status = 200 /\ srvLog[i].kind = "speaking"
            /\ srvSent[i] >= 1

\* no demo request is ever answered 'speaking', and none broadcasts a frame
DemoNeverSpeaks ==
    \A i \in 1..Len(srvLog) :
        srvLog[i].url = DEMO =>
            /\ srvLog[i].kind # "speaking"
            /\ srvSent[i] = 0 /\ srvLeft[i] = 0


----------------------------------------------------------------------------
(* The bridge: one utterance at a time, in order.                          *)

\* a request to the TTS service is in flight, or the utterance it started is
\* still playing (its timer of duration + 200 ms has not fired)
Outstanding == speakPc \in {"fetch", "timer"}

\* the step calls speak()
Speaks == spoken' # spoken

\* C29: at most one utterance is outstanding: speaking is set exactly while
\* one is, speak() is started only with speaking false, and while a request
\* is in flight or the timer of a successful one is pending, no arriving
\* message and no retry timer sends anything: only the end of the
\* outstanding utterance starts the next.
C29_OneUtteranceAtATime ==
    /\ [](speaking <=> Outstanding)
    /\ [][Speaks =>
            /\ Len(spoken') = Len(spoken) + 1
            /\ speaking' /\ speakPc' = "fetch"
            /\ Outstanding =>
                  (arrived' = arrived /\ retryTimers' = retryTimers)]_vars
    /\ [][(speakPc = "timer" /\ (arrived' # arrived
                                 \/ retryTimers' # retryTimers))
            => (spoken' = spoken /\ speakPc' = "timer")]_vars

\* two messages arrived and were queued while the first utterance plays
C29_Witness ==
    /\ speakPc = "timer" /\ speaking
    /\ spoken = <<1>> /\ queue = <<2, 3>>

\* C30: messages are sent to the TTS service in arrival order and each at
\* most once, also after a failed request, and none is sent while a message
\* that arrived before it is still queued.
C30_InOrderAtMostOnce ==
    /\ \A i, j \in 1..Len(spoken) : i < j => spoken[i] < spoken[j]
    /\ \A i \in 1..Len(spoken), k \in 1..Len(queue) : spoken[i] < queue[k]
    /\ \A i, j \in 1..Len(queue) : i < j => queue[i] < queue[j]

\* the request for the second message has failed with the third queued: the
\* second is not in the queue again, the retry timer is pending
C30_Witness ==
    /\ speakPc = "none" /\ ~speaking /\ retryTimers = 1
    /\ spoken = <<1, 2>> /\ queue = <<3>>


\* the bridge with a TTS service that answers every request, one way or
\* another, and timers that fire
BridgeFairSpec ==
    BridgeSpec /\ WF_vars(FetchOk \/ FetchNotOk \/ FetchFail)
               /\ WF_vars(SpeakTimerFire) /\ WF_vars(RetryTimerFire)

\* C31: the bridge never gets stuck with messages queued: every utterance
\* ends (speaking is cleared, after which drainQueue sends the next), and
\* every queued message is eventually sent or evicted by overflow.
C31_QueueDrains ==
    /\ \A n \in 1..MaxArrivals :
        (speaking /\ Len(spoken) = n) ~> (~speaking \/ Len(spoken) > n)
    /\ \A m \in 1..MaxArrivals :
        (m \in Elements(queue))
            ~> (m \in Elements(spoken) \/ m \in evicted)

\* a request has failed with two messages queued: nothing is being spoken,
\* the retry timer is pending
C31_Witness ==
    /\ speakPc = "none" /\ ~speaking /\ retryTimers = 1
    /\ spoken = <<1>> /\ queue = <<2, 3>>


----------------------------------------------------------------------------
(* generateLipSync(text, {speed, fps}) with the numbers a request body can *)
(* hold, for text without markers: one call of phonemesToFrames, its       *)
(* sampling loop one iteration per step.  Times are in milliseconds.       *)

\* iterations of the sampling loop that are followed
MaxSamples == 10
\* eyes: handleLook calls and periodic ticks followed
MaxLooks == 3
MaxTicks == 2
\* registry: rows of the transactions table
MaxTx == 3

\* the number Infinity: larger than every time the loop reaches
Infinity == 1000000

\* a / b for a > 0, as JavaScript divides: Infinity when b is 0
JsDivide(a, b) ==
    IF a = Infinity THEN Infinity
    ELSE IF b = 0 THEN Infinity
    ELSE IF b < 0 THEN 0 - (a \div (0 - b))
    ELSE a \div b

\* a + b
JsPlus(a, b) == IF a = Infinity \/ b = Infinity THEN Infinity ELSE a + b

\* p.duration in ms
DurationMs(p) == (1000 * p.duration.n) \div p.duration.d

\* the sum of the phonemes' durations after p.duration /= segSpeed, which is
\* skipped when segSpeed is 1
RECURSIVE TotalMs(_, _)
TotalMs(phonemes, speed) ==
    IF phonemes = <<>> THEN 0
    ELSE JsPlus(TotalMs(Tail(phonemes), speed),
                IF speed # 1 THEN JsDivide(DurationMs(Head(phonemes)), speed)
                ELSE DurationMs(Head(phonemes)))

\* const frameDuration = 1.0 / fps
FrameDuration(fps) == JsDivide(1000, fps)

\* generateLipSync up to the sampling loop of phonemesToFrames
LoopCall ==
    /\ pPc = "call"
    /\ \E phonemes \in {textToPhonemes(pText)} :
       \E total \in {TotalMs(phonemes, pSpeed)} : pTotal' = total
    /\ pTime' = 0 /\ pFrames' = 0
    /\ pPc' = "loop"
    /\ UNCHANGED <<pText, pFps, pSpeed>>
    /\ UNCHANGED <<lipVars, blendVars, animVars, srvVars, emoVars, netVars>>
    /\ UNCHANGED loopRest

\* one iteration of while (currentTime < totalDuration)
LoopStep ==
    /\ pPc = "loop" /\ pTime < pTotal
    /\ pFrames < MaxSamples
    /\ pFrames' = pFrames + 1
    /\ pTime' = JsPlus(pTime, FrameDuration(pFps))
    /\ UNCHANGED <<pText, pFps, pSpeed, pPc, pTotal>>
    /\ UNCHANGED <<lipVars, blendVars, animVars, srvVars, emoVars, netVars>>
    /\ UNCHANGED loopRest

\* the loop is left, the closing frame pushed, and generateLipSync returns
LoopReturn ==
    /\ pPc = "loop" /\ ~(pTime < pTotal)
    /\ pFrames' = pFrames + 1
    /\ pPc' = "done"
    /\ UNCHANGED <<pText, pFps, pSpeed, pTotal, pTime>>
    /\ UNCHANGED <<lipVars, blendVars, animVars, srvVars, emoVars, netVars>>
    /\ UNCHANGED loopRest

LoopTexts == { <<"H","i">>, <<"!">>, <<"a","r"," ","H","i","!">> }
LoopFps   == {-1, 0, 10, 25}
LoopSpeed == {-1, 0, 1, 2}

LoopInit ==
    /\ pText \in LoopTexts /\ pFps \in LoopFps /\ pSpeed \in LoopSpeed
    /\ pPc = "call" /\ pTotal = 0 /\ pTime = 0 /\ pFrames = 0

LoopNext == LoopCall \/ LoopStep \/ LoopReturn

LoopSpecInit ==
    /\ LoopInit /\ BlendIdle /\ AnimIdle /\ SrvIdle /\ EmoIdle /\ NetIdle
    /\ MarkerIdle /\ GenIdle /\ StreamIdle /\ SvcIdle /\ LookIdle
    /\ RegIdle
LoopSpec == LoopSpecInit /\ [][LoopNext]_vars

\* the call runs: JavaScript executes the next statement
LoopFairSpec == LoopSpec /\ WF_vars(LoopNext)

\* C32: generateLipSync terminates, with a finite frame list, for every text
\* and every numeric speed and fps a request can hold.
C32_Terminates == <>(pPc = "done")

\* the loop cannot end: every iteration leaves currentTime below
\* totalDuration
Diverging ==
    /\ pPc = "loop" /\ pTime < pTotal
    /\ (FrameDuration(pFps) <= 0 \/ pTotal = Infinity)
    /\ FrameDuration(pFps) # Infinity

\* once the loop cannot end it stays so, whatever the number of iterations
DivergingForEver == [][Diverging => Diverging']_vars

\* it terminates when speed and fps are positive
TerminatesWhenPositive == (pFps > 0 /\ pSpeed > 0) ~> (pPc = "done")

\* the followed iterations are enough for every call that ends
EndsWithinSamples == (pPc = "loop" /\ ~Diverging) => pFrames < MaxSamples


\* C33: onDone is called at most once per stream, only after every frame
\* has been handed to onFrame, and never after stop() has been called.
C33_DoneOnceNotAfterStop ==
    /\ doneCalls <= 1
    /\ doneCalls = 1 => AllDelivered
    /\ doneAfterStop = 0

\* onDone is called at most once and only after every frame
DoneOnceAfterAllFrames == doneCalls <= 1 /\ (doneCalls = 1 => AllDelivered)

\* onDone was called although stop() had been called, from inside the
\* onFrame call of the last frame: no frame was handed over after stop()
DoneAfterStopOnLastFrame ==
    doneAfterStop = 1 /\ lateFrames = 0 /\ stopped /\ doneCalls = 1


\* what connection v is sent by a message of connection c that is not a
\* producer: the cached frame when c is v and registers as viewer by it
SentAfter(c, v) ==
    IF v = c /\ RegistersViewer(c)
    THEN sent[v] \o JoinTexts(latestFrame) ELSE sent[v]

\* C34: a role, once given by the first role message, never changes; a message
\* of a connection that is not a producer caches no frame and relays nothing;
\* no connection is in both sets, the sets agree with the roles, and a closed
\* connection is in neither.
C34_RolesFixedProducersOnly ==
    /\ [](/\ producers \cap viewers = {}
          /\ \A c \in producers : connRole[c] = "producer"
          /\ \A c \in viewers : connRole[c] = "viewer"
          /\ \A c \in Conns :
               connState[c] \in {"none", "CLOSED"}
                 => c \notin producers \cup viewers)
    /\ [][\A c \in Conns :
            /\ connRole[c] # "" => connRole'[c] = connRole[c]
            /\ connRole'[c] # connRole[c] =>
                 /\ HandledFrom(c) /\ relayIn'.data.valid
                 /\ relayIn'.data.val.kind = "object"
                 /\ connRole'[c] = relayIn'.data.val.role
            /\ (HandledFrom(c) /\ connRole[c] # "producer") =>
                 /\ latestFrame' = latestFrame /\ accepted' = accepted
                 /\ \A v \in Conns : sent'[v] = SentAfter(c, v)]_vars

\* a registered viewer has just sent a frame that also names the role
\* producer, while a second viewer and a producer were open: it is still a
\* viewer only, no frame is cached and nobody was sent anything
C34_Witness ==
    /\ relayIn.conn \in viewers /\ connRole[relayIn.conn] = "viewer"
    /\ relayIn.data = Text("spaced", JVal("object", "producer", TRUE, 2, "object"))
    /\ producers # {} /\ Cardinality(viewers) = 2
    /\ latestFrame = NoFrame /\ accepted = <<>>
    /\ \A v \in Conns : sent[v] = <<>>

\* a JSON value that is neither a role message nor a frame
Unexpected(val) ==
    \/ val.kind # "object"
    \/ val.role = "" /\ ~(val.hasT /\ val.pts = "object")

\* C35: no message makes the relay's message handler throw: a message that
\* is valid JSON of an unexpected shape (null, a number, an object that is
\* neither a role message nor a frame) leaves the server running and its
\* roles, sets, cached frame and sent texts unchanged.
C35_MalformedIgnored ==
    [][\A c \in Conns :
         (HandledFrom(c) /\ relayIn'.data.valid
            /\ Unexpected(relayIn'.data.val))
           => /\ ~crashed'
              /\ UNCHANGED <<connState, connRole, producers, viewers,
                             latestFrame, demoInterval, sent, accepted>>]_vars

\* the same for every such value but null
IgnoredUnlessNull ==
    [][\A c \in Conns :
         (HandledFrom(c) /\ relayIn'.data.valid
            /\ Unexpected(relayIn'.data.val)
            /\ relayIn'.data.val.kind # "null")
           => /\ ~crashed'
              /\ UNCHANGED <<connState, connRole, producers, viewers,
                             latestFrame, demoInterval, sent, accepted>>]_vars

\* the server has gone down on the message null of a connection, with a
\* producer and a viewer connected
CrashedOnNull ==
    /\ crashed /\ relayIn.data = Text("plain", JNull)
    /\ producers # {} /\ viewers # {}


\* C36: once disconnect() has been called (and connect(url) not again), no
\* reconnect timer is pending and the receiver has no socket that is
\* connecting or open.
C36_StaysDisconnected ==
    rStopped => (rTimer = -1 /\ rWs \in {"CLOSING", "CLOSED"})

\* after disconnect() and with no call of connect(url) by the page, the
\* receiver is connected again
OpenAgainAfterDisconnect ==
    rStopped /\ rWs = "OPEN" /\ rStatus = "connected" /\ rTimer = -1


----------------------------------------------------------------------------
(* bridge/index.js, eyes/index.js, ears/index.js: the connection of each   *)
(* service to AgentChat and its reconnect timer.  The three services have  *)
(* the same connect / scheduleReconnect code.                              *)

Services == {"bridge", "eyes", "ears"}

\* const MAX_RECONNECT_DELAY = 30000
MAX_RECONNECT_DELAY == 30000

\* doubling without Math.min
SvcNextDelayUncapped(delay) == delay * 2

\* Math.min(reconnectDelay * 2, MAX_RECONNECT_DELAY)
SvcNextDelay(delay) ==
    IF delay * 2 < MAX_RECONNECT_DELAY THEN delay * 2 ELSE MAX_RECONNECT_DELAY

\* connect() of service s with reconnectDelay at delay and the timers left:
\* the socket is created, or the constructor throws and scheduleReconnect()
\* is called
SvcConnectBody(s, delay, left) ==
    \/ /\ svcWs' = [svcWs EXCEPT ![s] = "CONNECTING"]
       /\ svcTimers' = [svcTimers EXCEPT ![s] = left]
    \/ /\ svcWs' = [svcWs EXCEPT ![s] = "null"]
       /\ svcTimers' = [svcTimers EXCEPT ![s] = Append(left, delay)]

\* startup: connect()
SvcStart ==
    /\ \E s \in Services :
         /\ svcWs[s] = "idle"
         /\ SvcConnectBody(s, svcDelay[s], svcTimers[s])
    /\ UNCHANGED svcDelay
    /\ UNCHANGED <<lipVars, blendVars, animVars, srvVars, emoVars, netVars>>
    /\ UNCHANGED svcRest

\* ws.on('open'): reconnectDelay = 1000
SvcOnOpen ==
    /\ \E s \in Services :
         /\ svcWs[s] = "CONNECTING"
         /\ svcWs' = [svcWs EXCEPT ![s] = "OPEN"]
         /\ svcDelay' = [svcDelay EXCEPT ![s] = 1000]
    /\ UNCHANGED svcTimers
    /\ UNCHANGED <<lipVars, blendVars, animVars, srvVars, emoVars, netVars>>
    /\ UNCHANGED svcRest

\* ws.on('close'): ws = null; scheduleReconnect()
SvcOnClose ==
    /\ \E s \in Services :
         /\ svcWs[s] \in {"CONNECTING", "OPEN"}
         /\ svcWs' = [svcWs EXCEPT ![s] = "null"]
         /\ svcTimers' = [svcTimers EXCEPT
                            ![s] = Append(svcTimers[s], svcDelay[s])]
    /\ UNCHANGED svcDelay
    /\ UNCHANGED <<lipVars, blendVars, animVars, srvVars, emoVars, netVars>>
    /\ UNCHANGED svcRest

\* a reconnect timer fires: the delay is doubled up to the cap, then connect()
SvcTimerFire ==
    /\ \E s \in Services :
         /\ svcTimers[s] # <<>>
         /\ svcDelay' = [svcDelay EXCEPT ![s] = SvcNextDelay(svcDelay[s])]
         /\ SvcConnectBody(s, svcDelay'[s], Tail(svcTimers[s]))
    /\ UNCHANGED <<lipVars, blendVars, animVars, srvVars, emoVars, netVars>>
    /\ UNCHANGED svcRest

\* let ws = null; let reconnectDelay = 1000
SvcInit ==
    /\ svcWs = [s \in Services |-> "idle"]
    /\ svcDelay = [s \in Services |-> 1000]
    /\ svcTimers = [s \in Services |-> <<>>]

SvcNext == SvcStart \/ SvcOnOpen \/ SvcOnClose \/ SvcTimerFire

\* the three services under every interleaving of opens, closes, failed
\* constructors and timers
SvcSpecInit ==
    /\ SvcInit /\ LoopIdle /\ LookIdle /\ RegIdle /\ BlendIdle /\ AnimIdle /\ SrvIdle /\ EmoIdle
    /\ NetIdle /\ MarkerIdle /\ GenIdle /\ StreamIdle
SvcSpec == SvcSpecInit /\ [][SvcNext]_vars

\* C37: in each service the reconnect delay is between 1000 and 30000 ms and
\* at most one reconnect timer is pending, and only while the service has no
\* socket; a firing timer doubles the delay up to 30000, an open resets it to
\* 1000, and a close or a failed constructor sets exactly one timer, with the
\* current delay as its wait.
C37_BackoffBoundedOneTimer ==
    /\ [](\A s \in Services :
            /\ 1000 <= svcDelay[s] /\ svcDelay[s] <= 30000
            /\ Len(svcTimers[s]) <= 1
            /\ svcTimers[s] # <<>> => svcWs[s] = "null")
    /\ [][\A s \in Services :
            /\ (svcTimers[s] # <<>>
                  /\ <<svcWs[s], svcDelay[s], svcTimers[s]>>
                       # <<svcWs'[s], svcDelay'[s], svcTimers'[s]>>)
                 => /\ svcDelay[s] < 15000 => svcDelay'[s] = 2 * svcDelay[s]
                    /\ svcDelay[s] >= 15000 => svcDelay'[s] = 30000
            /\ (svcWs[s] = "CONNECTING" /\ svcWs'[s] = "OPEN")
                 => svcDelay'[s] = 1000
            /\ (svcWs[s] \in {"CONNECTING", "OPEN"} /\ svcWs'[s] = "null")
                 => svcTimers'[s] = <<svcDelay[s]>> /\ svcDelay'[s] = svcDelay[s]
            /\ (svcWs'[s] = "null" /\ svcWs[s] \in {"idle", "null"}
                  /\ svcTimers'[s] # svcTimers[s])
                 => svcTimers'[s] = <<svcDelay'[s]>>]_vars

\* the bridge waits at the cap after failed attempts, the eyes service is
\* connected with its delay reset, and the ears service waits 4 s
C37_Witness ==
    /\ svcDelay["bridge"] = 30000 /\ svcTimers["bridge"] = <<30000>>
    /\ svcWs["eyes"] = "OPEN" /\ svcDelay["eyes"] = 1000
    /\ svcTimers["eyes"] = <<>>
    /\ svcWs["ears"] = "null" /\ svcTimers["ears"] = <<4000>>


----------------------------------------------------------------------------
(* eyes/index.js: handleLook, called for a chat command or POST /api/look, *)
(* and the periodic capture.  captureScreen() is synchronous; the only     *)
(* await of a look is that of analyzeImage.                                *)

Looks == 1..MaxLooks

\* the calls of handleLook not yet made, and those waiting for analyzeImage
IdleLooks == {i \in Looks : lookPc[i] = "idle"}
InProgress == {i \in Looks : lookPc[i] = "await"}

\* a handleLook that never finds the flag set
IsBusyNever(flag) == FALSE

\* if (analyzing)
IsBusy(flag) == flag

\* handleLook returns status
Returns(i, status) ==
    /\ lookPc' = [lookPc EXCEPT ![i] = "done"]
    /\ lookStatus' = [lookStatus EXCEPT ![i] = status]

\* handleLook(prompt), call i, up to its await, with captureCount at count:
\* 'busy'; or the flag is set and the capture fails; or it succeeds and
\* analyzeImage is awaited
HandleLook(i, count) ==
    IF IsBusy(analyzing)
    THEN /\ Returns(i, "busy")
         /\ analyzing' = analyzing /\ captureCount' = count
    ELSE \/ /\ Returns(i, "capture_failed")
            /\ analyzing' = FALSE /\ captureCount' = count
         \/ /\ lookPc' = [lookPc EXCEPT ![i] = "await"]
            /\ lookStatus' = lookStatus
            /\ analyzing' = TRUE /\ captureCount' = count + 1

\* a '!look' chat message or POST /api/look
LookRequest ==
    /\ IdleLooks # {}
    /\ \E i \in {j \in IdleLooks : \A k \in IdleLooks : j <= k} :
         HandleLook(i, captureCount)
    /\ UNCHANGED lookTicks
    /\ UNCHANGED <<lipVars, blendVars, animVars, srvVars, emoVars, netVars>>
    /\ UNCHANGED lookRest

\* analyzeImage settles: an observation, null or an empty text, or an
\* exception (thrown by it or by sendToChat)
AnalyzeSettles ==
    /\ \E i \in InProgress :
         \E status \in {"ok", "analysis_failed", "error"} :
            Returns(i, status)
    /\ analyzing' = FALSE
    /\ UNCHANGED <<captureCount, lookTicks>>
    /\ UNCHANGED <<lipVars, blendVars, animVars, srvVars, emoVars, netVars>>
    /\ UNCHANGED lookRest

\* the setInterval callback: skip while analyzing; capture; on a significant
\* change, handleLook()
PeriodicTick ==
    /\ lookTicks < MaxTicks
    /\ lookTicks' = lookTicks + 1
    /\ IF analyzing
       THEN UNCHANGED <<analyzing, captureCount, lookPc, lookStatus>>
       ELSE \/ UNCHANGED <<analyzing, captureCount, lookPc, lookStatus>>
            \/ /\ captureCount' = captureCount + 1
               /\ UNCHANGED <<analyzing, lookPc, lookStatus>>
            \/ /\ IdleLooks # {}
               /\ \E i \in {j \in IdleLooks : \A k \in IdleLooks : j <= k} :
                    HandleLook(i, captureCount + 1)
    /\ UNCHANGED <<lipVars, blendVars, animVars, srvVars, emoVars, netVars>>
    /\ UNCHANGED lookRest

\* let analyzing = false; let captureCount = 0
LookInit ==
    /\ analyzing = FALSE /\ captureCount = 0
    /\ lookPc = [i \in Looks |-> "idle"]
    /\ lookStatus = [i \in Looks |-> ""]
    /\ lookTicks = 0

LookNext == LookRequest \/ AnalyzeSettles \/ PeriodicTick

\* the eyes service under every interleaving of requests, ticks and
\* analysis results
LookSpecInit ==
    /\ LookInit /\ LoopIdle /\ SvcIdle /\ RegIdle /\ BlendIdle /\ AnimIdle /\ SrvIdle
    /\ EmoIdle /\ NetIdle /\ MarkerIdle /\ GenIdle /\ StreamIdle
LookSpec == LookSpecInit /\ [][LookNext]_vars

\* call i returns in this step
ReturnsNow(i) == lookPc[i] # "done" /\ lookPc'[i] = "done"
TickNow == lookTicks' = lookTicks + 1

\* C38: at most one look is in progress, and the flag is set exactly while
\* one is (so every return of a look that was in progress, with whatever
\* status, leaves it clear); a call made while a look is in progress returns
\* 'busy' and captures nothing, a tick made then does nothing, and a call
\* made while none is in progress is not answered 'busy'.
C38_OneLookAtATime ==
    /\ [](/\ Cardinality(InProgress) <= 1
          /\ analyzing <=> InProgress # {}
          /\ \A i \in Looks : lookPc[i] = "done" <=> lookStatus[i] # "")
    /\ [][/\ \A i \in Looks :
               (ReturnsNow(i) /\ lookPc[i] = "idle") =>
                  IF InProgress # {}
                  THEN /\ lookStatus'[i] = "busy"
                       /\ ~TickNow => captureCount' = captureCount
                       /\ analyzing' /\ InProgress \subseteq
                                          {j \in Looks : lookPc'[j] = "await"}
                  ELSE lookStatus'[i] = "capture_failed"
          /\ \A i \in Looks :
               (ReturnsNow(i) /\ lookPc[i] = "await") =>
                  /\ lookStatus'[i] \in {"ok", "analysis_failed", "error"}
                  /\ ~analyzing'
          /\ (TickNow /\ analyzing) =>
                UNCHANGED <<analyzing, captureCount, lookPc, lookStatus>>]_vars

\* a look failed at the capture, a second is waiting for its analysis, a
\* third was answered 'busy', and both ticks have come without a capture
C38_Witness ==
    /\ lookStatus[1] = "capture_failed" /\ lookPc[2] = "await"
    /\ lookStatus[3] = "busy"
    /\ analyzing /\ captureCount = 1 /\ lookTicks = 2


----------------------------------------------------------------------------
(* registry.ts: the Registry of handles over its two SQLite tables.  A     *)
(* handle is a sequence of letters; a nullable column holds <<>> for NULL  *)
(* or <<v>>.                                                               *)

SqlNull == <<>>
Some(v) == <<v>>

\* handle.toLowerCase() left out
ToLowerCaseNone(handle) == handle

\* handle.toLowerCase()
ToLowerCase(handle) ==
    [i \in 1..Len(handle) |->
        IF handle[i] = "A" THEN "a" ELSE IF handle[i] = "B" THEN "b"
        ELSE handle[i]]

\* the check of a registry without owners
OwnedByAny(h, agentId) == h \in DOMAIN handles

\* the negation of: if (!record || record.owner_agent_id !== agentId)
OwnedBy(h, agentId) ==
    h \in DOMAIN handles /\ handles[h].owner_agent_id = agentId

\* the table handles with the row of h inserted or replaced
WithRow(h, row) ==
    [k \in DOMAIN handles \cup {h} |-> IF k = h THEN row ELSE handles[k]]

Called(op, handle, agent, to, price, result) ==
    regLast' = [op |-> op, handle |-> handle, agent |-> agent, to |-> to,
                price |-> price, result |-> result]

\* register(handle, agentId, price, proposalId): both inserts in one
\* transaction; the primary key of handles makes the first insert throw for a
\* handle that has a row, and the transaction is rolled back
Register(handle, agentId, price) ==
    LET h == ToLowerCase(handle) IN
    IF h \in DOMAIN handles
    THEN /\ Called("register", handle, agentId, "", price, "threw")
         /\ UNCHANGED <<handles, transactions>>
    ELSE /\ Len(transactions) < MaxTx
         /\ handles' = WithRow(h, [owner_agent_id |-> agentId,
                                   price_paid |-> price,
                                   listed_price |-> SqlNull,
                                   status |-> "active"])
         /\ transactions' = Append(transactions,
                [handle |-> h, from_agent |-> SqlNull, to_agent |-> agentId,
                 price |-> price, type |-> "purchase"])
         /\ Called("register", handle, agentId, "", price, "ok")

\* listForSale(handle, agentId, price)
ListForSale(handle, agentId, price) ==
    LET h == ToLowerCase(handle) IN
    IF ~OwnedBy(h, agentId)
    THEN /\ Called("listForSale", handle, agentId, "", price, "false")
         /\ UNCHANGED <<handles, transactions>>
    ELSE /\ handles' = WithRow(h, [handles[h] EXCEPT
                                     !.listed_price = Some(price),
                                     !.status = "listed"])
         /\ UNCHANGED transactions
         /\ Called("listForSale", handle, agentId, "", price, "true")

\* transfer(handle, fromAgent, toAgent, price, proposalId)
Transfer(handle, fromAgent, toAgent, price) ==
    LET h == ToLowerCase(handle) IN
    IF ~OwnedBy(h, fromAgent)
    THEN /\ Called("transfer", handle, fromAgent, toAgent, price, "false")
         /\ UNCHANGED <<handles, transactions>>
    ELSE /\ Len(transactions) < MaxTx
         /\ handles' = WithRow(h, [handles[h] EXCEPT
                                     !.owner_agent_id = toAgent,
                                     !.price_paid = price,
                                     !.listed_price = SqlNull,
                                     !.status = "active"])
         /\ transactions' = Append(transactions,
                [handle |-> h, from_agent |-> Some(fromAgent),
                 to_agent |-> toAgent, price |-> price, type |-> "resale"])
         /\ Called("transfer", handle, fromAgent, toAgent, price, "true")

\* the handles and agents of the calls, and the prices of a registration,
\* a listing and a transfer
RegHandles == {<<"A">>, <<"a">>, <<"b">>}
Agents == {"x", "y"}
RegisterPrices == {1}
ListPrices == {3}
Prices == {1, 2}

RegisterCall ==
    /\ \E handle \in RegHandles : \E agentId \in Agents :
         \E price \in RegisterPrices :
         Register(handle, agentId, price)
    /\ UNCHANGED <<lipVars, blendVars, animVars, srvVars, emoVars, netVars>>
    /\ UNCHANGED regRest

ListForSaleCall ==
    /\ \E handle \in RegHandles : \E agentId \in Agents :
         \E price \in ListPrices :
         ListForSale(handle, agentId, price)
    /\ UNCHANGED <<lipVars, blendVars, animVars, srvVars, emoVars, netVars>>
    /\ UNCHANGED regRest

TransferCall ==
    /\ \E handle \in RegHandles : \E fromAgent \in Agents :
         \E toAgent \in Agents : \E price \in Prices :
            Transfer(handle, fromAgent, toAgent, price)
    /\ UNCHANGED <<lipVars, blendVars, animVars, srvVars, emoVars, netVars>>
    /\ UNCHANGED regRest

\* new Registry(dbPath) on an empty database
RegInit ==
    /\ handles = <<>> /\ transactions = <<>>
    /\ regLast = [op |-> "none", handle |-> <<>>, agent |-> "", to |-> "",
                  price |-> 0, result |-> ""]

RegNext == RegisterCall \/ ListForSaleCall \/ TransferCall

\* a Registry under every sequence of calls
RegSpecInit ==
    /\ RegInit /\ LoopIdle /\ SvcIdle /\ LookIdle /\ BlendIdle /\ AnimIdle
    /\ SrvIdle /\ EmoIdle /\ NetIdle /\ MarkerIdle /\ GenIdle /\ StreamIdle
RegSpec == RegSpecInit /\ [][RegNext]_vars

\* the handle of the latest call in lower case, and whether the agent of the
\* call owned it before the call
CallKey == ToLowerCase(regLast'.handle)
WasOwner ==
    CallKey \in DOMAIN handles
      /\ handles[CallKey].owner_agent_id = regLast'.agent
OtherRowsKept ==
    /\ DOMAIN handles' = DOMAIN handles \cup {CallKey}
    /\ \A k \in DOMAIN handles : k # CallKey => handles'[k] = handles[k]

\* C39: a listForSale or transfer call returns true exactly when its agent
\* owns the handle; otherwise both tables are unchanged.  A transfer that
\* succeeds leaves the handle's row with owner toAgent, price_paid the price,
\* listed_price NULL and status active and the other rows as they were; a
\* listForSale that succeeds sets listed_price and status 'listed' only.
C39_OwnerOnly ==
    [][regLast'.op \in {"listForSale", "transfer"} =>
         /\ regLast'.result = IF WasOwner THEN "true" ELSE "false"
         /\ ~WasOwner => UNCHANGED <<handles, transactions>>
         /\ (WasOwner /\ regLast'.op = "transfer") =>
               /\ handles'[CallKey] =
                     [owner_agent_id |-> regLast'.to,
                      price_paid |-> regLast'.price,
                      listed_price |-> SqlNull, status |-> "active"]
               /\ OtherRowsKept
         /\ (WasOwner /\ regLast'.op = "listForSale") =>
               /\ handles'[CallKey] =
                     [owner_agent_id |-> regLast'.agent,
                      price_paid |-> handles[CallKey].price_paid,
                      listed_price |-> Some(regLast'.price),
                      status |-> "listed"]
               /\ OtherRowsKept /\ transactions' = transactions]_vars

\* x registered "a" for 1 and y "b"; x has just sold "A" to y for 2: the row
\* of "a" has owner y and no listing, that of "b" is as it was
C39_Witness ==
    /\ regLast = [op |-> "transfer", handle |-> <<"A">>, agent |-> "x",
                  to |-> "y", price |-> 2, result |-> "true"]
    /\ DOMAIN handles = {<<"a">>, <<"b">>}
    /\ handles[<<"a">>] = [owner_agent_id |-> "y", price_paid |-> 2,
                           listed_price |-> SqlNull, status |-> "active"]
    /\ handles[<<"b">>].owner_agent_id = "y"
    /\ Len(transactions) = 3 /\ transactions[1].to_agent = "x"


\* a handle in upper case; two spellings of one handle; the transactions
\* recorded for a handle, by position
UpperCase(handle) ==
    [i \in 1..Len(handle) |->
        IF handle[i] = "a" THEN "A" ELSE IF handle[i] = "b" THEN "B"
        ELSE handle[i]]
SameHandle(h, k) == UpperCase(h) = UpperCase(k)
TxOf(h) ==
    {i \in 1..Len(transactions) : SameHandle(transactions[i].handle, h)}
LastTxOf(h) ==
    transactions[CHOOSE i \in TxOf(h) : \A j \in TxOf(h) : j <= i]

\* the latest call registered or transferred a handle
Succeeded ==
    \/ regLast'.op = "register" /\ regLast'.result = "ok"
    \/ regLast'.op = "transfer" /\ regLast'.result = "true"
OwnersKept ==
    /\ DOMAIN handles' = DOMAIN handles
    /\ \A k \in DOMAIN handles :
         handles'[k].owner_agent_id = handles[k].owner_agent_id

\* C40: no two rows of handles are spellings of one handle; each row's owner
\* is the to_agent of the last transaction recorded for its handle, and
\* every transaction is of a handle that has a row.  A register or transfer
\* that succeeds appends one transaction, for its handle and new owner, to
\* the earlier ones; every other call (a failed one, or a listing) leaves
\* the transactions and the owners as they were.
C40_OneOwnerMatchesLedger ==
    /\ [](/\ \A k \in DOMAIN handles :
               /\ \A j \in DOMAIN handles : SameHandle(j, k) => j = k
               /\ TxOf(k) # {}
               /\ handles[k].owner_agent_id = LastTxOf(k).to_agent
          /\ \A i \in 1..Len(transactions) :
               \E k \in DOMAIN handles : SameHandle(transactions[i].handle, k))
    /\ [][IF Succeeded
          THEN /\ Len(transactions') = Len(transactions) + 1
               /\ SubSeq(transactions', 1, Len(transactions)) = transactions
               /\ SameHandle(transactions'[Len(transactions')].handle,
                             regLast'.handle)
               /\ transactions'[Len(transactions')].to_agent =
                     IF regLast'.op = "register"
                     THEN regLast'.agent ELSE regLast'.to
          ELSE transactions' = transactions /\ OwnersKept]_vars

\* x registered "a" and sold it to y, who listed it; x has just tried to
\* register "A": the call threw, y owns "a", and two transactions are recorded
C40_Witness ==
    /\ regLast.op = "register" /\ regLast.result = "threw"
    /\ regLast.handle = <<"A">> /\ regLast.agent = "x"
    /\ DOMAIN handles = {<<"a">>}
    /\ handles[<<"a">>].owner_agent_id = "y"
    /\ handles[<<"a">>].status = "listed"
    /\ Len(transactions) = 2 /\ transactions[1].to_agent = "x"
    /\ transactions[2].type = "resale"

============================================================================
